---------------------------- MODULE Spec2Model ----------------------------
(***************************************************************************)
(* TravelBuddy backend: the personalisation model                          *)
(* (app/models/user_preferences.py, class UserPreferences) and the         *)
(* retrieval pipeline (app/models/rag_pipeline.py, class RAGPipeline).      *)
(*                                                                         *)
(* Numbers.  Python floats are modelled exactly: a raw or normalised score *)
(* is a non-negative rational whose numerator and denominator are          *)
(* arbitrary-precision naturals (sequences of base-Base limbs, least       *)
(* significant first), because the products of the five weighted factors   *)
(* do not fit a machine integer.  Embeddings are rational vectors          *)
(* [num, den].  The one irrational step, the square root inside the cosine *)
(* similarity, is truncated to a multiple of 1/CosScale.                   *)
(* Seasonal weights are held in tenths (0.7 is 7, 0.3 is 3).               *)
(***************************************************************************)
EXTENDS Integers, Sequences, FiniteSets, TLC

VARIABLES
    \* UserPreferences (user_preferences.py:13-17)
    user_embeddings,          \* user_id -> embedding
    preference_vectors,       \* user_id -> (category -> embedding)
    seasonal_preferences,     \* user_id -> (season label -> weight, in tenths)
    travel_group_preferences, \* user_id -> [types: group -> count, requirements: set]
    amenity_preferences,      \* user_id -> (amenity -> count)
    calls,                    \* history: the update_preferences calls made so far
    last_update,              \* outcome of the latest update_preferences call
    last_scores               \* the latest get_personalized_scores call and its result

prefVars == <<user_embeddings, preference_vectors, seasonal_preferences,
              travel_group_preferences, amenity_preferences, calls,
              last_update, last_scores>>

VARIABLES
    \* RAGPipeline (rag_pipeline.py:30-43): a collection maps an id to the
    \* stored [document, metadata, embedding]
    hotels_collection,
    attractions_collection,
    itineraries_collection,
    index_calls,              \* number of indexing calls made so far
    last_rag                  \* the latest indexing or search call and its outcome

collections == <<hotels_collection, attractions_collection, itineraries_collection>>

ragVars == <<collections, index_calls, last_rag>>

VARIABLE
    \* the environment: whether SentenceTransformer.encode answers or raises
    encoder_up

VARIABLE
    \* update_preferences calls in progress at the same time: per thread its
    \* position, the updates it has still to make and the value it has read
    threads

VARIABLES
    \* BookingAgent (booking_agent.py:15) and the profiles UserProfileService
    \* keeps on disk (user_profile.py:13)
    pending_bookings,         \* booking_id -> booking
    profiles,                 \* user_id -> stored profile
    clock,                    \* datetime.now(), in whole seconds
    issued,                   \* history: the booking ids initiate_booking returned
    last_booking              \* the latest booking call and its outcome

bookingVars == <<pending_bookings, profiles, clock, issued, last_booking>>

VARIABLES
    \* TravelAgent (travel_agent.py:44)
    conversations,            \* user_id -> the stored conversation, oldest first
    queries,                  \* number of process_query calls made so far
    last_query                \* the latest process_query call and its outcome

agentVars == <<conversations, queries, last_query>>

VARIABLE
    \* LLMHandler.generate_safe in progress (llm_handler.py:155-211): its
    \* position, attempt counter, the generate calls made and its result
    llm

VARIABLES
    \* StreamingVoiceService (voice_service.py:71-98): audio_buffer and
    \* is_recording
    voice,
    \* the chunks handed to process_audio_chunk since the last
    \* start_recording, and the last call with what it returned
    voice_log

voiceVars == <<voice, voice_log>>

VARIABLES
    \* ConnectionManager (websoket.py:15-16)
    active_connections,
    user_sessions

connVars == <<active_connections, user_sessions>>

VARIABLE
    \* the last generate_itinerary call of ItineraryAgent with what it returned
    last_itinerary

serviceVars == <<threads, bookingVars, agentVars, llm, voiceVars, connVars,
                 last_itinerary>>

\* what the actions of one service leave alone
besideThreads == <<ragVars, encoder_up, bookingVars, agentVars, llm, voiceVars, connVars,
                   last_itinerary>>
besideBooking == <<prefVars, ragVars, encoder_up, threads, agentVars, llm, voiceVars, connVars,
                   last_itinerary>>
besideAgent   == <<prefVars, ragVars, encoder_up, threads, bookingVars, llm, voiceVars, connVars,
                   last_itinerary>>
besideLlm     == <<prefVars, ragVars, encoder_up, threads, bookingVars, agentVars, voiceVars, connVars,
                   last_itinerary>>
besideConn    == <<prefVars, ragVars, encoder_up, threads, bookingVars, agentVars, llm, voiceVars,
                   last_itinerary>>
besidePlanner == <<prefVars, ragVars, encoder_up, threads, bookingVars, agentVars, llm,
                   voiceVars, connVars>>
besideVoice   == <<prefVars, ragVars, encoder_up, threads, bookingVars, agentVars, llm, connVars,
                   last_itinerary>>

vars == <<prefVars, ragVars, encoder_up, serviceVars>>

-----------------------------------------------------------------------------
(* Generic helpers                                                          *)

None == "None"

\* A Python dict as a function: d[k] = v, every other key kept.
Put(d, k, v) == [x \in DOMAIN d \cup {k} |-> IF x = k THEN v ELSE d[x]]

\* dict.get(k, default)
Get(d, k, default) == IF k \in DOMAIN d THEN d[k] ELSE default

EmptyDict == [x \in {} |-> None]

Range(s) == {s[i] : i \in DOMAIN s}

Abs(x) == IF x < 0 THEN -x ELSE x

RECURSIVE Gcd(_, _)
Gcd(a, b) == IF b = 0 THEN a ELSE Gcd(b, a % b)

RECURSIVE SumSeq(_)
SumSeq(s) == IF s = <<>> THEN 0 ELSE Head(s) + SumSeq(Tail(s))

-----------------------------------------------------------------------------
(* Arbitrary-precision naturals: a sequence of limbs in 0..Base-1, least    *)
(* significant first, without leading zero limbs (zero is the empty         *)
(* sequence), so that equal numbers are equal sequences.                    *)

Base == 10000

RECURSIVE BigOf(_)
BigOf(n) == IF n = 0 THEN <<>> ELSE <<n % Base>> \o BigOf(n \div Base)

RECURSIVE BigTrim(_)
BigTrim(a) ==
    IF a = <<>> THEN <<>>
    ELSE IF a[Len(a)] = 0 THEN BigTrim(SubSeq(a, 1, Len(a) - 1))
    ELSE a

RECURSIVE BigAddC(_, _, _)
BigAddC(a, b, carry) ==
    IF a = <<>> /\ b = <<>> THEN (IF carry = 0 THEN <<>> ELSE <<carry>>)
    ELSE LET x == IF a = <<>> THEN 0 ELSE Head(a)
             y == IF b = <<>> THEN 0 ELSE Head(b)
             s == x + y + carry
         IN  <<s % Base>> \o BigAddC(IF a = <<>> THEN <<>> ELSE Tail(a),
                                     IF b = <<>> THEN <<>> ELSE Tail(b),
                                     s \div Base)

BigAdd(a, b) == BigAddC(a, b, 0)

RECURSIVE BigSubB(_, _, _)
\* a - b - borrow, for a >= b + borrow
BigSubB(a, b, borrow) ==
    IF a = <<>> THEN <<>>
    ELSE LET y == IF b = <<>> THEN 0 ELSE Head(b)
             d == Head(a) - y - borrow
         IN  <<IF d < 0 THEN d + Base ELSE d>>
             \o BigSubB(Tail(a), IF b = <<>> THEN <<>> ELSE Tail(b),
                        IF d < 0 THEN 1 ELSE 0)

BigSub(a, b) == BigTrim(BigSubB(a, b, 0))

RECURSIVE BigMulLimb(_, _, _)
BigMulLimb(a, k, carry) ==
    IF a = <<>> THEN (IF carry = 0 THEN <<>> ELSE <<carry>>)
    ELSE LET p == Head(a) * k + carry
         IN  <<p % Base>> \o BigMulLimb(Tail(a), k, p \div Base)

RECURSIVE BigMul(_, _)
BigMul(a, b) ==
    IF b = <<>> \/ a = <<>> THEN <<>>
    ELSE LET high == BigMul(a, Tail(b))
         IN  BigAdd(BigTrim(BigMulLimb(a, Head(b), 0)),
                    IF high = <<>> THEN <<>> ELSE <<0>> \o high)

RECURSIVE BigLeFrom(_, _, _)
\* a <= b for two numbers of the same length, compared from limb i down
BigLeFrom(a, b, i) ==
    IF i = 0 THEN TRUE
    ELSE IF a[i] # b[i] THEN a[i] < b[i]
    ELSE BigLeFrom(a, b, i - 1)

BigLe(a, b) ==
    IF Len(a) # Len(b) THEN Len(a) < Len(b) ELSE BigLeFrom(a, b, Len(a))

BigLt(a, b) == BigLe(a, b) /\ a # b

-----------------------------------------------------------------------------
(* Non-negative rationals over the big naturals: [n, d] with d > 0.         *)

Rat(n, d) == [n |-> BigOf(n), d |-> BigOf(d)]

ROne == Rat(1, 1)

RMul(x, y) == [n |-> BigMul(x.n, y.n), d |-> BigMul(x.d, y.d)]

RLe(x, y) == BigLe(BigMul(x.n, y.d), BigMul(y.n, x.d))

RLt(x, y) == BigLt(BigMul(x.n, y.d), BigMul(y.n, x.d))

REq(x, y) == BigMul(x.n, y.d) = BigMul(y.n, x.d)

\* x - y, for x >= y
RSub(x, y) == [n |-> BigSub(BigMul(x.n, y.d), BigMul(y.n, x.d)),
               d |-> BigMul(x.d, y.d)]

\* x / y, for y > 0
RDiv(x, y) == [n |-> BigMul(x.n, y.d), d |-> BigMul(x.d, y.n)]

RECURSIVE RMinSeq(_)
\* Python's min(scores)
RMinSeq(s) ==
    IF Len(s) = 1 THEN s[1]
    ELSE LET m == RMinSeq(Tail(s)) IN IF RLe(s[1], m) THEN s[1] ELSE m

RECURSIVE RMaxSeq(_)
\* Python's max(scores)
RMaxSeq(s) ==
    IF Len(s) = 1 THEN s[1]
    ELSE LET m == RMaxSeq(Tail(s)) IN IF RLe(m, s[1]) THEN s[1] ELSE m

-----------------------------------------------------------------------------
(* The embedding encoder (SentenceTransformer.encode): a deterministic      *)
(* function from a text to a fixed-length vector.  The model takes two      *)
(* dimensions, a fixed table for the short texts and a vector derived from  *)
(* the length for every other text.  Every vector has a positive first      *)
(* component, so that no mean or non-negative weighted average of encodings *)
(* is the zero vector (sentence encoders do not return cancelling vectors). *)

Encode(text) ==
    CASE text = "beach resort" -> <<3, 1>>
      [] text = "beach"        -> <<2, 1>>
      [] text = "luxury"       -> <<1, 2>>
      [] text = "hiking"       -> <<1, -2>>
      [] text = "Taj"          -> <<1, 3>>
      [] text = "Leela"        -> <<3, -1>>
      [] text = "Fort"         -> <<1, -3>>
      [] text = "doc Taj"      -> <<1, 2>>
      [] text = "doc Leela"    -> <<2, -1>>
      [] text = "doc Fort"     -> <<1, -1>>
      [] OTHER                 -> <<1 + (Len(text) % 3), (Len(text) % 5) - 2>>

\* the encoder's fixed output length
Dim == Len(Encode(""))

\* encode(texts) for a list: one row per text
EncodeAll(texts) == [i \in DOMAIN texts |-> Encode(texts[i])]

\* A faulty variant of the encoder call: its error is caught and dropped
EncodeRaises_Swallowed(up) == None

\* embeddings.py:36-48: an exception of the underlying model is logged and
\* raised again; user_preferences.py and rag_pipeline.py call encode without
\* any handler.  The exception a call of encode ends with, or None.
EncodeRaises(up) == IF up THEN None ELSE "EncoderError"

\* A rational vector [num, den] in lowest terms with den > 0.
VecReduce(num, den) ==
    LET g == Gcd(Gcd(Abs(num[1]), Abs(num[2])), den)
    IN  [num |-> [k \in 1..Dim |-> num[k] \div g], den |-> den \div g]

RECURSIVE VecSum(_)
VecSum(rows) ==
    IF rows = <<>> THEN [k \in 1..Dim |-> 0]
    ELSE LET rest == VecSum(Tail(rows))
         IN  [k \in 1..Dim |-> Head(rows)[k] + rest[k]]

\* np.mean(embeddings, axis=0)
Mean(rows) == VecReduce(VecSum(rows), Len(rows))

Dot(a, b) == a[1] * b[1] + a[2] * b[2]

\* floor(CosScale * sqrt(q / x)) for 0 <= q <= x, x > 0
CosScale == 10

ScaledRoot(q, x) ==
    CHOOSE k \in 0..CosScale :
        /\ k * k * x <= CosScale * CosScale * q
        /\ (k + 1) * (k + 1) * x > CosScale * CosScale * q

\* np.dot(a, b) / (norm(a) * norm(b)) for an encoding a and a stored vector b,
\* in units of 1/CosScale, truncated towards zero.  The denominator of b
\* cancels, so the numerators decide.
CosineSimilarity(item_emb, stored) ==
    LET b == stored.num
        d == Dot(item_emb, b)
        x == Dot(item_emb, item_emb) * Dot(b, b)
        k == ScaledRoot(d * d, x)
    IN  IF d < 0 THEN -k ELSE k

-----------------------------------------------------------------------------
(* Inputs of the model                                                      *)

Users == {"u1", "u2"}

\* datetime.now().strftime('%B')
Months == {"October", "May"}

\* str.lower() on the labels the model uses
Lower(s) ==
    CASE s = "October" -> "october"
      [] s = "May"     -> "may"
      [] s = "Pool"    -> "pool"
      [] s = "WiFi"    -> "wifi"
      [] s = "Resort"  -> "resort"
      [] s = "Villa"   -> "villa"
      [] OTHER         -> s

Categories == <<"hotels", "attractions", "activities">>

-----------------------------------------------------------------------------
(* UserPreferences.update_preferences and its helpers                       *)

\* An interaction and a profile are Python dicts: functions whose domain is
\* the set of keys present.
Has(d, k) == k \in DOMAIN d

\* user_preferences.py:28-44: queries, then item names, then the profile's
\* interests, travel_style and preferred_activities
Texts(interactions, profile) ==
    LET withQuery == SelectSeq(interactions, LAMBDA i : Has(i, "query"))
        withItem  == SelectSeq(interactions, LAMBDA i : Has(i, "item_name"))
    IN  [k \in DOMAIN withQuery |-> withQuery[k]["query"]]
        \o [k \in DOMAIN withItem |-> withItem[k]["item_name"]]
        \o (IF Has(profile, "interests") THEN profile["interests"] ELSE <<>>)
        \o (IF Has(profile, "travel_style") THEN <<profile["travel_style"]>> ELSE <<>>)
        \o (IF Has(profile, "preferred_activities")
            THEN profile["preferred_activities"] ELSE <<>>)

\* user_preferences.py:115: 0.7 for the current month, 0.3 otherwise (tenths)
SeasonWeight(season, current_month) ==
    IF Lower(season) = Lower(current_month) THEN 7 ELSE 3

\* A faulty variant of _update_seasonal_preferences: the weight is assigned
\* where the source adds it (= for += at lines 118 and 120)
UpdateSeasonal_Assign(sp, user_id, season, current_month) ==
    Put(sp, user_id,
        Put(Get(sp, user_id, EmptyDict), season, SeasonWeight(season, current_month)))

\* _update_seasonal_preferences
UpdateSeasonal(sp, user_id, season, current_month) ==
    LET mine == Get(sp, user_id, EmptyDict)
        w    == SeasonWeight(season, current_month)
    IN  Put(sp, user_id,
            IF season \in DOMAIN mine
            THEN Put(mine, season, mine[season] + w)
            ELSE Put(mine, season, w))

\* A faulty variant of _update_travel_group_preferences: it returns early when
\* the call carries no special requirements, before the group is counted
UpdateTravelGroup_NeedsRequirements(tgp, user_id, group_type, special_requirements) ==
    IF special_requirements = <<>> THEN tgp
    ELSE LET mine == Get(tgp, user_id, [types |-> EmptyDict, requirements |-> {}])
         IN  Put(tgp, user_id,
                 [types |-> Put(mine.types, group_type,
                                Get(mine.types, group_type, 0) + 1),
                  requirements |-> mine.requirements \cup Range(special_requirements)])

\* _update_travel_group_preferences
UpdateTravelGroup(tgp, user_id, group_type, special_requirements) ==
    LET mine  == Get(tgp, user_id, [types |-> EmptyDict, requirements |-> {}])
        types == IF group_type \in DOMAIN mine.types
                 THEN Put(mine.types, group_type, mine.types[group_type] + 1)
                 ELSE Put(mine.types, group_type, 1)
        reqs  == IF special_requirements # <<>>
                 THEN mine.requirements \cup Range(special_requirements)
                 ELSE mine.requirements
    IN  Put(tgp, user_id, [types |-> types, requirements |-> reqs])

RECURSIVE CountAmenities(_, _)
\* the loop of _update_amenity_preferences over one user's counts
CountAmenities(counts, amenities) ==
    IF amenities = <<>> THEN counts
    ELSE LET a == Head(amenities)
         IN  CountAmenities(IF a \in DOMAIN counts
                            THEN Put(counts, a, counts[a] + 1)
                            ELSE Put(counts, a, 1),
                            Tail(amenities))

\* _update_amenity_preferences
UpdateAmenities(ap, user_id, amenities) ==
    Put(ap, user_id, CountAmenities(Get(ap, user_id, EmptyDict), amenities))

\* user_preferences.py:99: the 1e-6 guard of the min-max weights, as 1/EpsInv
EpsInv == 1000000

RECURSIVE MinOf(_)
MinOf(s) == IF Len(s) = 1 THEN s[1]
            ELSE LET m == MinOf(Tail(s)) IN IF s[1] <= m THEN s[1] ELSE m

RECURSIVE MaxOf(_)
MaxOf(s) == IF Len(s) = 1 THEN s[1]
            ELSE LET m == MaxOf(Tail(s)) IN IF s[1] >= m THEN s[1] ELSE m

\* A faulty variant of line 99: the ratings are divided by their maximum,
\* without the shift by the minimum
RatingWeights_NoShift(ratings) ==
    [k \in DOMAIN ratings |-> <<ratings[k] * EpsInv, MaxOf(ratings) * EpsInv + 1>>]

\* user_preferences.py:99:
\*   weights = (ratings - ratings.min()) / (ratings.max() - ratings.min() + 1e-6)
\* each weight an exact fraction <<numerator, denominator>>
RatingWeights(ratings) ==
    LET lo == MinOf(ratings)
        hi == MaxOf(ratings)
    IN  [k \in DOMAIN ratings |->
            <<(ratings[k] - lo) * EpsInv, (hi - lo) * EpsInv + 1>>]

RECURSIVE WeightedSum(_, _)
WeightedSum(rows, nums) ==
    IF rows = <<>> THEN [k \in 1..Dim |-> 0]
    ELSE LET rest == WeightedSum(Tail(rows), Tail(nums))
         IN  [k \in 1..Dim |-> Head(rows)[k] * Head(nums) + rest[k]]

\* np.average(embeddings, weights=weights, axis=0): sum(w * e) / sum(w), and
\* ZeroDivisionError when the weights sum to zero.  The weights of one call
\* share their denominator, which cancels in the quotient.
WeightedAverage(rows, weights) ==
    LET nums == [k \in DOMAIN weights |-> weights[k][1]]
    IN  IF SumSeq(nums) = 0
        THEN [raised |-> "ZeroDivisionError"]
        ELSE [raised |-> None,
              value  |-> VecReduce(WeightedSum(rows, nums), SumSeq(nums))]

\* user_preferences.py:85-88: the interactions of a category with a truthy rating
RelevantItems(interactions, category) ==
    SelectSeq(interactions,
              LAMBDA i : /\ Has(i, "category") /\ i["category"] = category
                         /\ Has(i, "rating") /\ i["rating"] # 0)

\* user_preferences.py:90-105 for one category: the new preference_vectors and
\* the exception raised, if any
UpdateCategory(pv, user_id, interactions, category) ==
    LET relevant == RelevantItems(interactions, category)
    IN  IF relevant = <<>> THEN [pv |-> pv, raised |-> None, weights |-> <<>>]
        ELSE IF \E k \in DOMAIN relevant : ~Has(relevant[k], "item_name")
        THEN [pv |-> pv, raised |-> "KeyError", weights |-> <<>>]
        ELSE LET items   == [k \in DOMAIN relevant |-> relevant[k]["item_name"]]
                 ratings == [k \in DOMAIN relevant |-> relevant[k]["rating"]]
                 weights == RatingWeights(ratings)
                 avg     == WeightedAverage(EncodeAll(items), weights)
             IN  IF avg.raised # None
                 THEN [pv |-> pv, raised |-> avg.raised, weights |-> weights]
                 ELSE [pv |-> Put(pv, user_id,
                                  Put(Get(pv, user_id, EmptyDict), category, avg.value)),
                       raised |-> None, weights |-> weights]

RECURSIVE UpdatePreferenceVectors(_, _, _, _)
\* _update_preference_vectors: the categories in order, stopping at an
\* exception; weights maps each category that computed weights to them
UpdatePreferenceVectors(pv, user_id, interactions, categories) ==
    IF categories = <<>> THEN [pv |-> pv, raised |-> None, weights |-> EmptyDict]
    ELSE LET one  == UpdateCategory(pv, user_id, interactions, Head(categories))
             mine == IF one.weights = <<>> THEN EmptyDict
                     ELSE Put(EmptyDict, Head(categories), one.weights)
         IN  IF one.raised # None
             THEN [pv |-> one.pv, raised |-> one.raised, weights |-> mine]
             ELSE LET rest == UpdatePreferenceVectors(one.pv, user_id, interactions,
                                                      Tail(categories))
                  IN  [pv |-> rest.pv, raised |-> rest.raised,
                       weights |-> [c \in DOMAIN mine \cup DOMAIN rest.weights |->
                                       IF c \in DOMAIN mine THEN mine[c]
                                       ELSE rest.weights[c]]]

\* A faulty variant of lines 62-73: without texts the user's general embedding
\* and category vectors are reset
EmbeddingStep_Reset(ue, pv, user_id, interactions, texts) ==
    IF texts # <<>>
    THEN LET upd == UpdatePreferenceVectors(pv, user_id, interactions, Categories)
         IN  [ue |-> Put(ue, user_id, Mean(EncodeAll(texts))), pv |-> upd.pv,
              raised |-> upd.raised, weights |-> upd.weights]
    ELSE [ue |-> [u \in DOMAIN ue \ {user_id} |-> ue[u]],
          pv |-> [u \in DOMAIN pv \ {user_id} |-> pv[u]],
          raised |-> None, weights |-> EmptyDict]

\* A faulty variant of lines 62-73: the new mean is averaged with the general
\* embedding the user already has, where the source overwrites it
EmbeddingStep_Merge(ue, pv, user_id, interactions, texts) ==
    IF texts # <<>>
    THEN LET upd == UpdatePreferenceVectors(pv, user_id, interactions, Categories)
             new == Mean(EncodeAll(texts))
             old == ue[user_id]
             avg == IF user_id \in DOMAIN ue
                    THEN VecReduce([k \in 1..Dim |->
                                       old.num[k] * new.den + new.num[k] * old.den],
                                   2 * old.den * new.den)
                    ELSE new
         IN  [ue |-> Put(ue, user_id, avg), pv |-> upd.pv,
              raised |-> upd.raised, weights |-> upd.weights]
    ELSE [ue |-> ue, pv |-> pv, raised |-> None, weights |-> EmptyDict]

\* user_preferences.py:62-73: with any text, the general embedding becomes the
\* mean of the encodings and the category vectors are recomputed; without,
\* nothing is touched
EmbeddingStep(ue, pv, user_id, interactions, texts) ==
    IF texts # <<>>
    THEN LET upd == UpdatePreferenceVectors(pv, user_id, interactions, Categories)
         IN  [ue |-> Put(ue, user_id, Mean(EncodeAll(texts))), pv |-> upd.pv,
              raised |-> upd.raised, weights |-> upd.weights]
    ELSE [ue |-> ue, pv |-> pv, raised |-> None, weights |-> EmptyDict]

-----------------------------------------------------------------------------
(* UserPreferences.get_personalized_scores                                  *)

\* A faulty variant of the seasonal factor: a candidate without best_seasons
\* is given no season, where line 201 gives it the current month
SeasonScore_NoDefaultMonth(mine, metadata, current_month) ==
    LET seasons == Get(metadata, "best_seasons", <<>>)
        F[k \in 0..Len(seasons)] ==
            IF k = 0 THEN ROne
            ELSE IF Lower(seasons[k]) \in DOMAIN mine
                 THEN RMul(F[k - 1], Rat(10 + mine[Lower(seasons[k])], 10))
                 ELSE F[k - 1]
    IN  F[Len(seasons)]

\* user_preferences.py:199-205: the seasonal factor of one item
SeasonScore(mine, metadata, current_month) ==
    LET seasons == Get(metadata, "best_seasons", <<Lower(current_month)>>)
        F[k \in 0..Len(seasons)] ==
            IF k = 0 THEN ROne
            ELSE IF Lower(seasons[k]) \in DOMAIN mine
                 THEN RMul(F[k - 1], Rat(10 + mine[Lower(seasons[k])], 10))
                 ELSE F[k - 1]
    IN  F[Len(seasons)]

\* user_preferences.py:209-225: the travel-group factor of one item
GroupScore(mine, metadata) ==
    LET requirements == mine.requirements
        amenities    == Range(Get(metadata, "amenities", <<>>))
        matches      == Cardinality(requirements \cap amenities)
        byReqs       == IF requirements # {}
                        THEN Rat(Cardinality(requirements) + matches,
                                 Cardinality(requirements))
                        ELSE ROne
        group_types  == DOMAIN mine.types
        hotel_type   == Lower(Get(metadata, "type", ""))
    IN  IF group_types # {}
        THEN IF hotel_type \in {"family", "resort"} /\ "family" \in group_types
             THEN RMul(byReqs, Rat(3, 2))
             ELSE IF hotel_type \in {"boutique", "villa"} /\ "couple" \in group_types
             THEN RMul(byReqs, Rat(3, 2))
             ELSE byReqs
        ELSE byReqs

RECURSIVE AmenityProduct(_, _, _)
AmenityProduct(mine, keys, lowered) ==
    IF keys = {} THEN ROne
    ELSE LET a    == CHOOSE x \in keys : TRUE
             rest == AmenityProduct(mine, keys \ {a}, lowered)
         IN  IF Lower(a) \in lowered
             THEN RMul(rest, Rat(10 + mine[a], 10))
             ELSE rest

\* user_preferences.py:231-236: the amenity factor of one item
AmenityScore(mine, metadata) ==
    LET item_amenities == Range(Get(metadata, "amenities", <<>>))
    IN  AmenityProduct(mine, DOMAIN mine, {Lower(a) : a \in item_amenities})

\* 0.3 * (1 + user_sim) and 0.2 * (1 + cat_sim), the similarity in 1/CosScale
Affinity(weightNum, weightDen, sim) ==
    RMul(Rat(weightNum, weightDen), Rat(CosScale + sim, CosScale))

\* user_preferences.py:172-173: user_emb / category_emb is not None
HasUserEmb(user_id) == user_id \in DOMAIN user_embeddings

HasCategoryEmb(user_id, category) ==
    /\ user_id \in DOMAIN preference_vectors
    /\ category \in DOMAIN preference_vectors[user_id]

\* user_preferences.py:182-240: the raw score of one item
RawScore(user_id, item, category, current_month) ==
    LET item_emb == Encode(item["document"])
        s0 == ROne
        s1 == IF HasUserEmb(user_id)
              THEN RMul(s0, Affinity(3, 10,
                            CosineSimilarity(item_emb, user_embeddings[user_id])))
              ELSE s0
        s2 == IF HasCategoryEmb(user_id, category)
              THEN RMul(s1, Affinity(2, 10,
                            CosineSimilarity(item_emb,
                                             preference_vectors[user_id][category])))
              ELSE s1
        s3 == IF user_id \in DOMAIN seasonal_preferences
              THEN RMul(s2, RMul(Rat(15, 100),
                                 SeasonScore(seasonal_preferences[user_id],
                                             item["metadata"], current_month)))
              ELSE s2
        s4 == IF user_id \in DOMAIN travel_group_preferences
              THEN RMul(s3, RMul(Rat(2, 10),
                                 GroupScore(travel_group_preferences[user_id],
                                            item["metadata"])))
              ELSE s3
        s5 == IF user_id \in DOMAIN amenity_preferences
              THEN RMul(s4, RMul(Rat(15, 100),
                                 AmenityScore(amenity_preferences[user_id],
                                              item["metadata"])))
              ELSE s4
    IN  s5

\* A faulty variant of lines 243-247: the scores are divided by the spread
\* without the shift by the minimum
Normalize_NoShift(scores) ==
    IF scores = <<>> THEN scores
    ELSE LET min_score == RMinSeq(scores)
             max_score == RMaxSeq(scores)
         IN  IF RLt(min_score, max_score)
             THEN [k \in DOMAIN scores |->
                      RDiv(scores[k], RSub(max_score, min_score))]
             ELSE scores

\* A faulty variant of lines 243-247: the shifted scores are divided by the
\* maximum, not by the spread
Normalize_ByMax(scores) ==
    IF scores = <<>> THEN scores
    ELSE LET min_score == RMinSeq(scores)
             max_score == RMaxSeq(scores)
         IN  IF RLt(min_score, max_score)
             THEN [k \in DOMAIN scores |->
                      RDiv(RSub(scores[k], min_score), max_score)]
             ELSE scores

\* user_preferences.py:243-247: min-max normalisation, skipped when all equal
Normalize(scores) ==
    IF scores = <<>> THEN scores
    ELSE LET min_score == RMinSeq(scores)
             max_score == RMaxSeq(scores)
         IN  IF RLt(min_score, max_score)
             THEN [k \in DOMAIN scores |->
                      RDiv(RSub(scores[k], min_score), RSub(max_score, min_score))]
             ELSE scores

\* A faulty variant of get_personalized_scores: the early return of lines
\* 175-176 is missing, so a user without embeddings is scored on the
\* seasonal, group and amenity factors
GetPersonalizedScores_NoNeutral(user_id, items, category, current_month) ==
    IF items = <<>> THEN [raw |-> <<>>, scores |-> <<>>]
    ELSE LET raw == [k \in DOMAIN items |->
                        RawScore(user_id, items[k], category, current_month)]
         IN  [raw |-> raw, scores |-> Normalize(raw)]

\* get_personalized_scores: the returned scores, and the raw scores of line
\* 240 (empty on the two early returns, where none is computed)
GetPersonalizedScores(user_id, items, category, current_month) ==
    IF items = <<>> THEN [raw |-> <<>>, scores |-> <<>>]
    ELSE IF ~HasUserEmb(user_id) /\ ~HasCategoryEmb(user_id, category)
    THEN [raw |-> <<>>, scores |-> [k \in DOMAIN items |-> ROne]]
    ELSE LET raw == [k \in DOMAIN items |->
                        RawScore(user_id, items[k], category, current_month)]
         IN  [raw |-> raw, scores |-> Normalize(raw)]

-----------------------------------------------------------------------------
(* The calls the model makes                                                *)

MaxUpdates == 2

\* interaction events
IQuery  == [query |-> "beach resort"]
ITaj5   == [item_name |-> "Taj", category |-> "hotels", rating |-> 5]
ILeela1 == [item_name |-> "Leela", category |-> "hotels", rating |-> 1]
ILeela5 == [item_name |-> "Leela", category |-> "hotels", rating |-> 5]
IFort3  == [item_name |-> "Fort", category |-> "attractions", rating |-> 3]
ITaj1a  == [item_name |-> "Taj", category |-> "attractions", rating |-> 1]
IRated  == [category |-> "hotels", rating |-> 4]
IUnrated == [item_name |-> "Fort", category |-> "hotels", rating |-> 0]

PSeasonOct   == [travel_season |-> "October"]
PFamily      == [travel_season |-> "october", travel_group |-> "family",
                 special_requirements |-> <<"pool">>]
PCouple      == [travel_group |-> "couple"]
PSolo        == [travel_group |-> "solo", special_requirements |-> <<"wifi", "spa">>,
                 preferred_amenities |-> <<"Pool", "WiFi", "Pool">>]
PInterests   == [interests |-> <<"beach">>, travel_style |-> "luxury",
                 preferred_activities |-> <<"hiking">>]
PSeasonMay   == [travel_season |-> "May", preferred_amenities |-> <<"pool">>]

UCall(user_id, interactions, profile, current_month) ==
    [user_id |-> user_id, interactions |-> interactions, profile |-> profile,
     current_month |-> current_month]

\* the update_preferences calls the model draws from: with and without
\* texts, with each profile field, with ratings that differ, that are equal,
\* that are alone in their category, and without an item name
UpdateCalls ==
    { UCall("u1", <<>>, EmptyDict, "October"),
      UCall("u1", <<>>, PSeasonOct, "October"),
      UCall("u1", <<>>, PSeasonOct, "May"),
      UCall("u1", <<IQuery>>, EmptyDict, "May"),
      UCall("u1", <<ITaj5, ILeela1>>, PFamily, "October"),
      UCall("u1", <<ILeela1, IUnrated, ITaj5, IFort3, ITaj1a>>, PInterests, "May"),
      UCall("u1", <<ITaj5, ILeela5>>, PSolo, "October"),
      UCall("u1", <<IQuery, IRated>>, PSeasonMay, "May"),
      UCall("u1", <<IRated>>, PCouple, "October"),
      UCall("u2", <<>>, PSeasonMay, "October"),
      UCall("u2", <<IFort3>>, PFamily, "May"),
      UCall("u2", <<ILeela1, ITaj5>>, PSolo, "May") }

\* candidate items, in the shape the document store returns them
ItemTaj   == [document |-> "doc Taj",
              metadata |-> [best_seasons |-> <<"October", "May">>,
                            amenities |-> <<"pool", "wifi">>, type |-> "Resort"]]
ItemLeela == [document |-> "doc Leela",
              metadata |-> [amenities |-> <<"Pool">>, type |-> "Villa"]]
ItemFort  == [document |-> "doc Fort", metadata |-> EmptyDict]
ItemHut   == [document |-> "doc Taj",
              metadata |-> [best_seasons |-> <<"may">>, type |-> "hostel"]]

ItemLists ==
    { <<>>, <<ItemHut>>, <<ItemTaj, ItemLeela>>, <<ItemFort, ItemHut>>,
      <<ItemLeela, ItemFort, ItemTaj>> }

NoCall == [op |-> "none"]

InitPrefs ==
    /\ user_embeddings = EmptyDict
    /\ preference_vectors = EmptyDict
    /\ seasonal_preferences = EmptyDict
    /\ travel_group_preferences = EmptyDict
    /\ amenity_preferences = EmptyDict
    /\ calls = <<>>
    /\ last_update = NoCall
    /\ last_scores = NoCall

\* update_preferences(user_id, interactions, profile), the clock reading
\* current_month.  The maps of lines 46-60 are updated before the embedding
\* step, so they keep their new values when that step raises.
UpdatePreferences(user_id, interactions, profile, current_month) ==
    LET texts == Texts(interactions, profile)
        sp == IF Has(profile, "travel_season")
              THEN UpdateSeasonal(seasonal_preferences, user_id,
                                  profile["travel_season"], current_month)
              ELSE seasonal_preferences
        tg == IF Has(profile, "travel_group")
              THEN UpdateTravelGroup(travel_group_preferences, user_id,
                                     profile["travel_group"],
                                     Get(profile, "special_requirements", <<>>))
              ELSE travel_group_preferences
        ap == IF Has(profile, "preferred_amenities")
              THEN UpdateAmenities(amenity_preferences, user_id,
                                   profile["preferred_amenities"])
              ELSE amenity_preferences
        upd == IF texts # <<>> /\ EncodeRaises(encoder_up) # None
               THEN [ue |-> user_embeddings, pv |-> preference_vectors,
                     raised |-> EncodeRaises(encoder_up), weights |-> EmptyDict]
               ELSE EmbeddingStep(user_embeddings, preference_vectors, user_id,
                                  interactions, texts)
        call == UCall(user_id, interactions, profile, current_month)
    IN  /\ seasonal_preferences' = sp
        /\ travel_group_preferences' = tg
        /\ amenity_preferences' = ap
        /\ user_embeddings' = upd.ue
        /\ preference_vectors' = upd.pv
        /\ calls' = Append(calls, call)
        /\ last_update' = [op |-> "update_preferences", call |-> call,
                           texts |-> texts, raised |-> upd.raised,
                           weights |-> upd.weights]
        /\ last_scores' = NoCall
        /\ UNCHANGED <<ragVars, encoder_up, serviceVars>>

\* get_personalized_scores(user_id, items, category)
Score(user_id, items, category, current_month) ==
    /\ last_scores' =
          IF items # <<>> /\ EncodeRaises(encoder_up) # None
          THEN [op |-> "get_personalized_scores", user_id |-> user_id,
                items |-> items, category |-> category,
                current_month |-> current_month,
                raised |-> EncodeRaises(encoder_up)]
          ELSE [op |-> "get_personalized_scores", user_id |-> user_id,
                items |-> items, category |-> category,
                current_month |-> current_month, raised |-> None,
                result |-> GetPersonalizedScores(user_id, items, category,
                                                 current_month)]
    /\ UNCHANGED <<user_embeddings, preference_vectors, seasonal_preferences,
                   travel_group_preferences, amenity_preferences, calls,
                   last_update, ragVars, encoder_up, serviceVars>>

DoUpdate ==
    /\ Len(calls) < MaxUpdates
    /\ \E c \in UpdateCalls :
           UpdatePreferences(c.user_id, c.interactions, c.profile, c.current_month)

\* Scoring changes no preference state, so a second call in a row reaches
\* nothing a first call does not: one is taken between updates.
DoScore ==
    /\ last_scores = NoCall
    /\ \E user_id \in Users, items \in ItemLists, category \in {"hotels", "attractions"},
          current_month \in Months :
           Score(user_id, items, category, current_month)

PrefsNext == DoUpdate \/ DoScore

-----------------------------------------------------------------------------
(* RAGPipeline: Python values                                               *)
(* A value carries its Python type; a float is held in tenths.  A raw       *)
(* record and a filter mapping are dicts: functions over the keys present.  *)

PInt(v)   == [t |-> "int", i |-> v]
PFloat(v) == [t |-> "float", f |-> v]
PStr(s)   == [t |-> "str", s |-> s]
PNone     == [t |-> "none"]
PList     == [t |-> "list"]

IsNumber(x) == x.t \in {"int", "float"}

\* the number's value in tenths
Tenths(x) == IF x.t = "int" THEN 10 * x.i ELSE x.f

\* the literals float() accepts among the strings of the model, in tenths
FloatLiteral(s) ==
    CASE s = "5000" -> 50000
      [] s = "4.0"  -> 40
      [] s = "3"    -> 30
      [] s = "3.5"  -> 35
      [] s = "35000" -> 350000
      [] OTHER      -> -1

\* the literals int() accepts among the strings of the model
IntLiteral(s) ==
    CASE s = "5000" -> 5000
      [] s = "3"    -> 3
      [] s = "35000" -> 35000
      [] OTHER      -> -1

\* A faulty variant of the float() coercion: a value that is not a number
\* counts as 0.0 where the source drops the filter
ToFloat_ZeroOnError(x) ==
    CASE IsNumber(x) -> [ok |-> TRUE, val |-> PFloat(Tenths(x))]
      [] x.t = "str" -> IF FloatLiteral(x.s) >= 0
                        THEN [ok |-> TRUE, val |-> PFloat(FloatLiteral(x.s))]
                        ELSE [ok |-> TRUE, val |-> PFloat(0)]
      [] OTHER       -> [ok |-> TRUE, val |-> PFloat(0)]

\* float(x): ValueError for a non-numeric string, TypeError for None or a list
ToFloat(x) ==
    CASE IsNumber(x) -> [ok |-> TRUE, val |-> PFloat(Tenths(x))]
      [] x.t = "str" -> IF FloatLiteral(x.s) >= 0
                        THEN [ok |-> TRUE, val |-> PFloat(FloatLiteral(x.s))]
                        ELSE [ok |-> FALSE, error |-> "ValueError"]
      [] OTHER       -> [ok |-> FALSE, error |-> "TypeError"]

\* int(x): truncates a float, accepts only integer literals
ToInt(x) ==
    CASE x.t = "int"   -> [ok |-> TRUE, val |-> x]
      [] x.t = "float" -> [ok |-> TRUE, val |-> PInt(x.f \div 10)]
      [] x.t = "str"   -> IF IntLiteral(x.s) >= 0
                          THEN [ok |-> TRUE, val |-> PInt(IntLiteral(x.s))]
                          ELSE [ok |-> FALSE, error |-> "ValueError"]
      [] OTHER         -> [ok |-> FALSE, error |-> "TypeError"]

\* a value inside an f-string, 'N/A' for None (rag_pipeline.py:96-97)
Format(x) ==
    CASE x.t = "int"   -> ToString(x.i)
      [] x.t = "float" -> ToString(x.f \div 10) \o "." \o ToString(x.f % 10)
      [] x.t = "str"   -> x.s
      [] x.t = "list"  -> "[...]"
      [] OTHER         -> "N/A"

RECURSIVE Join(_)
\* ', '.join(list)
Join(list) ==
    IF list = <<>> THEN ""
    ELSE IF Len(list) = 1 THEN list[1]
    ELSE list[1] \o ", " \o Join(Tail(list))

-----------------------------------------------------------------------------
(* The vector store (chromadb Collection), by its documented contract:      *)
(* add() rejects the whole batch when an id is missing or repeated in the   *)
(* batch or a metadata value is not a str, int, float or bool, and ignores  *)
(* a record whose id the collection already holds; query() rejects a where  *)
(* mapping with more than one key (several conditions need $and, see        *)
(* rag_pipeline.py:284), keeps the records whose metadata satisfy it and    *)
(* returns the n_results nearest by squared distance, nearest first.        *)

HasDuplicates(ids) == \E i, j \in DOMAIN ids : i # j /\ ids[i] = ids[j]

\* A faulty variant of the store's metadata validation: any value is accepted
ValidMetadata_Any(m) == TRUE

\* validate_metadata: every value is a str, an int or a float
ValidMetadata(m) == \A k \in DOMAIN m : m[k].t \in {"int", "float", "str"}

\* collection.add(documents, embeddings, metadatas, ids)
ChromaAdd(collection, documents, embeddings, metadatas, ids) ==
    IF \E i \in DOMAIN ids : ids[i] = None
    THEN [raised |-> "ValueError", collection |-> collection]
    ELSE IF HasDuplicates(ids)
    THEN [raised |-> "DuplicateIDError", collection |-> collection]
    ELSE IF \E i \in DOMAIN metadatas : ~ValidMetadata(metadatas[i])
    THEN [raised |-> "ValueError", collection |-> collection]
    ELSE [raised |-> None,
          collection |->
              [id \in DOMAIN collection \cup Range(ids) |->
                  IF id \in DOMAIN collection THEN collection[id]
                  ELSE LET i == CHOOSE i \in DOMAIN ids : ids[i] = id
                       IN  [document |-> documents[i], metadata |-> metadatas[i],
                            embedding |-> embeddings[i]]]]

\* where clauses: None, a mapping field -> {operator: value}, or {'$and': [...]}
WhereNone == [kind |-> "none"]
WhereDict(fields) == [kind |-> "dict", fields |-> fields]
WhereAnd(conds) == [kind |-> "and", conds |-> conds]
Cond(op, val) == [op |-> op, val |-> val]

ValidWhere(w) ==
    CASE w.kind = "none" -> TRUE
      [] w.kind = "dict" -> Cardinality(DOMAIN w.fields) = 1
      [] w.kind = "and"  -> \A i \in DOMAIN w.conds :
                                Cardinality(DOMAIN w.conds[i].fields) = 1

Compare(stored, cond) ==
    /\ IsNumber(stored)
    /\ CASE cond.op = "$lte" -> Tenths(stored) <= Tenths(cond.val)
         [] cond.op = "$gte" -> Tenths(stored) >= Tenths(cond.val)
         [] cond.op = "$eq"  -> Tenths(stored) = Tenths(cond.val)

MatchesFields(metadata, fields) ==
    \A f \in DOMAIN fields : f \in DOMAIN metadata /\ Compare(metadata[f], fields[f])

MatchesWhere(metadata, w) ==
    CASE w.kind = "none" -> TRUE
      [] w.kind = "dict" -> MatchesFields(metadata, w.fields)
      [] w.kind = "and"  -> \A i \in DOMAIN w.conds :
                                MatchesFields(metadata, w.conds[i].fields)

\* squared Euclidean distance, the collection's default
Distance(a, b) ==
    (a[1] - b[1]) * (a[1] - b[1]) + (a[2] - b[2]) * (a[2] - b[2])

Min2(a, b) == IF a <= b THEN a ELSE b

\* the orders in which the k nearest of the matching ids may come back:
\* nearest first, records at the same distance in either order
NearestLists(collection, matching, query_embedding, k) ==
    LET dist(id) == Distance(query_embedding, collection[id].embedding)
    IN  { r \in [1..k -> matching] :
            /\ \A i, j \in 1..k : i < j => r[i] # r[j] /\ dist(r[i]) <= dist(r[j])
            /\ \A id \in matching :
                   (\A i \in 1..k : r[i] # id) => \A i \in 1..k : dist(r[i]) <= dist(id) }

\* collection.query(query_embeddings=[e], n_results, where): the outcomes it
\* may have, each with one inner list per query embedding
ChromaQuery(collection, query_embedding, n_results, where) ==
    IF ~ValidWhere(where)
    THEN { [raised |-> "ValueError"] }
    ELSE LET matching == {id \in DOMAIN collection :
                             MatchesWhere(collection[id].metadata, where)}
             k == Min2(n_results, Cardinality(matching))
         IN  { [raised    |-> None,
                ids       |-> <<r>>,
                documents |-> <<[i \in 1..k |-> collection[r[i]].document]>>,
                metadatas |-> <<[i \in 1..k |-> collection[r[i]].metadata]>>,
                distances |-> <<[i \in 1..k |->
                                   Distance(query_embedding,
                                            collection[r[i]].embedding)]>>]
               : r \in NearestLists(collection, matching, query_embedding, k) }

\* _format_results
FormatResults(results) ==
    IF results.ids # <<>>
    THEN [i \in DOMAIN results.ids[1] |->
             [id |-> results.ids[1][i], document |-> results.documents[1][i],
              metadata |-> results.metadatas[1][i],
              distance |-> results.distances[1][i]]]
    ELSE <<>>

-----------------------------------------------------------------------------
(* RAGPipeline: indexing                                                    *)
(* A raw record is held flat: location.city is "city", reviews.avg_rating   *)
(* is "avg_rating", pricing.base_price_inr is "base_price_inr", budget.avg  *)
(* is "budget_avg", and so on.                                              *)

\* dict.get(key) for a value that may be None
GetValue(d, k) == IF k \in DOMAIN d THEN d[k] ELSE PNone

\* hotel.get('id'): the id, or None
IdOf(record) == Get(record, "id", None)

IdValue(record) == IF Has(record, "id") THEN PStr(record["id"]) ELSE PNone

\* rag_pipeline.py:81-101
HotelDocText(hotel) ==
    LET city == IF Get(hotel, "city", "") # "" THEN hotel["city"]
                ELSE Get(hotel, "district", "")
    IN  "Hotel: " \o Get(hotel, "name", "")
        \o " Location: " \o city
        \o " Type: " \o Get(hotel, "type", "")
        \o " Rating: " \o Format(GetValue(hotel, "avg_rating")) \o "/5"
        \o " Price: " \o Format(GetValue(hotel, "base_price_inr")) \o " per night"
        \o " Amenities: " \o Join(Get(hotel, "amenities", <<>>))
        \o " Best for: " \o Join(Get(hotel, "best_for", <<>>))
        \o " Description: " \o Join(Get(hotel, "common_praises", <<>>))

\* rag_pipeline.py:104-110
HotelMetadata(hotel) ==
    [id     |-> IdValue(hotel),
     name   |-> PStr(Get(hotel, "name", "")),
     price  |-> GetValue(hotel, "base_price_inr"),
     rating |-> GetValue(hotel, "avg_rating"),
     type   |-> PStr(Get(hotel, "type", ""))]

\* _index_hotels: the outcome of the add() that ends it
IndexHotelsResult(collection, hotels) ==
    LET documents == [i \in DOMAIN hotels |-> HotelDocText(hotels[i])]
        metadatas == [i \in DOMAIN hotels |-> HotelMetadata(hotels[i])]
        ids       == [i \in DOMAIN hotels |-> IdOf(hotels[i])]
    IN  ChromaAdd(collection, documents, EncodeAll(documents), metadatas, ids)

\* rag_pipeline.py:130-150; details.type is "type", details.duration_hours is
\* "duration_hours", details.entry_fee_inr is "entry_fee_inr"
AttractionDocText(attr) ==
    "Attraction: " \o Get(attr, "name", "")
    \o " Type: " \o Get(attr, "type", "")
    \o " Activities: " \o Join(Get(attr, "activities", <<>>))
    \o " Entry Fee: " \o Format(GetValue(attr, "entry_fee_inr"))
    \o " Duration: " \o Format(GetValue(attr, "duration_hours")) \o " hours"
    \o " Best months: " \o Join(Get(attr, "best_months", <<>>))

\* rag_pipeline.py:153-158
AttractionMetadata(attr) ==
    [id       |-> IdValue(attr),
     name     |-> PStr(Get(attr, "name", "")),
     type     |-> PStr(Get(attr, "type", "")),
     duration |-> GetValue(attr, "duration_hours")]

\* _index_attractions
IndexAttractionsResult(collection, attractions) ==
    LET documents == [i \in DOMAIN attractions |-> AttractionDocText(attractions[i])]
        metadatas == [i \in DOMAIN attractions |-> AttractionMetadata(attractions[i])]
        ids       == [i \in DOMAIN attractions |-> IdOf(attractions[i])]
    IN  ChromaAdd(collection, documents, EncodeAll(documents), metadatas, ids)

\* whether Python takes the value for true: None, zero and '' are not; the
\* lists of the model are not empty
Truthy(x) ==
    CASE x.t = "int"   -> x.i # 0
      [] x.t = "float" -> x.f # 0
      [] x.t = "str"   -> x.s # ""
      [] x.t = "list"  -> TRUE
      [] OTHER         -> FALSE

\* rag_pipeline.py:178: itin.get('duration_days') or itin.get('days') or None,
\* where 'days' is the list of the itinerary's days (rag_pipeline.py:187)
ItineraryDuration(itin) ==
    IF Truthy(GetValue(itin, "duration_days")) THEN itin["duration_days"]
    ELSE IF Truthy(GetValue(itin, "days")) THEN itin["days"]
    ELSE PNone

\* rag_pipeline.py:177-201
ItineraryDocText(itin) ==
    "Package: " \o Get(itin, "name", "")
    \o " Duration: " \o Format(ItineraryDuration(itin)) \o " days"
    \o " Theme: " \o Get(itin, "theme", "")
    \o " Budget: " \o Format(GetValue(itin, "budget_avg")) \o " (avg)"
    \o " Best months: " \o Join(Get(itin, "best_months", <<>>))

\* rag_pipeline.py:204-210
ItineraryMetadata(itin) ==
    [id         |-> IdValue(itin),
     name       |-> PStr(Get(itin, "name", "")),
     duration   |-> ItineraryDuration(itin),
     budget_avg |-> GetValue(itin, "budget_avg"),
     theme      |-> PStr(Get(itin, "theme", ""))]

\* _index_itineraries
IndexItinerariesResult(collection, itineraries) ==
    LET documents == [i \in DOMAIN itineraries |-> ItineraryDocText(itineraries[i])]
        metadatas == [i \in DOMAIN itineraries |-> ItineraryMetadata(itineraries[i])]
        ids       == [i \in DOMAIN itineraries |-> IdOf(itineraries[i])]
    IN  ChromaAdd(collection, documents, EncodeAll(documents), metadatas, ids)

-----------------------------------------------------------------------------
(* RAGPipeline: search                                                      *)

IsGiven(x) == x.t # "none"

\* rag_pipeline.py:232-248: the where mapping search_hotels builds
HotelWhereFields(filters) ==
    LET max_price  == GetValue(filters, "max_price")
        min_rating == GetValue(filters, "min_rating")
        byPrice  == IF IsGiven(max_price) /\ ToFloat(max_price).ok
                    THEN "price" :> Cond("$lte", ToFloat(max_price).val)
                    ELSE EmptyDict
        byRating == IF IsGiven(min_rating) /\ ToFloat(min_rating).ok
                    THEN "rating" :> Cond("$gte", ToFloat(min_rating).val)
                    ELSE EmptyDict
    IN  byPrice @@ byRating

\* rag_pipeline.py:253: where=where_clause if where_clause else None
HotelWhere(filters) ==
    IF DOMAIN HotelWhereFields(filters) = {} THEN WhereNone
    ELSE WhereDict(HotelWhereFields(filters))

\* rag_pipeline.py:287-301: the conditions search_itineraries collects
ItineraryConditions(filters) ==
    LET duration   == GetValue(filters, "duration")
        max_budget == GetValue(filters, "max_budget")
        byDuration == IF IsGiven(duration) /\ ToInt(duration).ok
                      THEN <<WhereDict("duration" :> Cond("$eq", ToInt(duration).val))>>
                      ELSE <<>>
        byBudget   == IF IsGiven(max_budget) /\ ToFloat(max_budget).ok
                      THEN <<WhereDict("budget_avg" :>
                                       Cond("$lte", ToFloat(max_budget).val))>>
                      ELSE <<>>
    IN  byDuration \o byBudget

\* rag_pipeline.py:303-306
ItineraryWhere(filters) ==
    LET conditions == ItineraryConditions(filters)
    IN  IF Len(conditions) = 1 THEN conditions[1]
        ELSE IF Len(conditions) > 1 THEN WhereAnd(conditions)
        ELSE WhereNone

\* what a search returns or raises, for one outcome of the store's query
SearchOutcome(out) ==
    IF out.raised # None THEN [raised |-> out.raised, results |-> <<>>]
    ELSE [raised |-> None, results |-> FormatResults(out)]

\* search_hotels(query, filters, n_results): its possible outcomes
SearchHotels(collection, query, filters, n_results) ==
    { SearchOutcome(out) :
        out \in ChromaQuery(collection, Encode(query), n_results, HotelWhere(filters)) }

\* search_attractions(query, n_results): its possible outcomes
SearchAttractions(collection, query, n_results) ==
    { SearchOutcome(out) :
        out \in ChromaQuery(collection, Encode(query), n_results, WhereNone) }

\* search_itineraries(query, filters, n_results): its possible outcomes
SearchItineraries(collection, query, filters, n_results) ==
    { SearchOutcome(out) :
        out \in ChromaQuery(collection, Encode(query), n_results,
                            ItineraryWhere(filters)) }

-----------------------------------------------------------------------------
(* The indexing and search calls the model makes                            *)

MaxIndexCalls == 2
MaxLimit == 3

HotelA  == [id |-> "A", name |-> "Taj", city |-> "Kochi", type |-> "resort",
            avg_rating |-> PFloat(45), base_price_inr |-> PInt(3000),
            amenities |-> <<"pool", "spa">>]
HotelB  == [id |-> "B", name |-> "Leela", district |-> "Idukki", type |-> "villa",
            avg_rating |-> PFloat(30), base_price_inr |-> PInt(8000)]
HotelA2 == [id |-> "A", name |-> "Taj Mahal Palace", city |-> "Kochi",
            avg_rating |-> PFloat(40), base_price_inr |-> PInt(6000)]
HotelC  == [id |-> "C", name |-> "Inn", avg_rating |-> PFloat(40)]
HotelD  == [id |-> "D", name |-> "Hut", avg_rating |-> PInt(4),
            base_price_inr |-> PInt(4000)]

HotelBatches ==
    { <<HotelA, HotelB>>, <<HotelA2>>, <<HotelD, HotelA2>>, <<HotelC, HotelD>>,
      <<HotelA, HotelA2>> }

ItinA  == [id |-> "I1", name |-> "Backwaters", duration_days |-> PInt(3),
           budget_avg |-> PInt(15000), theme |-> "nature"]
ItinB  == [id |-> "I2", name |-> "Hills", duration_days |-> PInt(5),
           budget_avg |-> PInt(40000)]
ItinC  == [id |-> "I3", name |-> "Coast", duration_days |-> PInt(3),
           budget_avg |-> PInt(30000), best_months |-> <<"October", "May">>]
ItinA2 == [id |-> "I1", name |-> "Grand tour", duration_days |-> PInt(7),
           budget_avg |-> PInt(90000)]

\* an itinerary that gives its days as a list and no duration_days
ItinD  == [id |-> "I4", name |-> "Spice route", days |-> PList,
           budget_avg |-> PInt(20000)]
\* an itinerary without an id
ItinE  == [name |-> "Unnamed", duration_days |-> PInt(2), budget_avg |-> PInt(9000)]

ItineraryBatches ==
    { <<ItinA, ItinB>>, <<ItinC>>, <<ItinA2, ItinC>>, <<ItinB, ItinD>>, <<ItinE>> }

AttrA == [id |-> "T1", name |-> "Fort", type |-> "heritage",
          duration_hours |-> PInt(2), entry_fee_inr |-> PInt(50)]
AttrB == [id |-> "T2", name |-> "Beach", type |-> "nature",
          duration_hours |-> PFloat(15), activities |-> <<"surfing">>]
\* an attraction without duration_hours
AttrC == [id |-> "T3", name |-> "Market", type |-> "shopping"]

AttractionBatches == { <<AttrA, AttrB>>, <<AttrB>>, <<AttrA, AttrC>> }

Queries == {"", "beach resort"}

HotelFilters ==
    { EmptyDict,
      [max_price |-> PInt(5000)],
      [max_price |-> PStr("5000")],
      [max_price |-> PStr("cheap")],
      [max_price |-> PList],
      [min_rating |-> PFloat(40)],
      [min_rating |-> PStr("good")],
      [max_price |-> PNone, min_rating |-> PStr("4.0")],
      [max_price |-> PInt(5000), min_rating |-> PFloat(40)],
      [max_price |-> PStr("cheap"), min_rating |-> PFloat(40)],
      [max_price |-> PInt(5000), min_rating |-> PStr("good")],
      [max_price |-> PStr("cheap"), min_rating |-> PList] }

ItineraryFilters ==
    { EmptyDict,
      [duration |-> PInt(3)],
      [duration |-> PStr("3")],
      [duration |-> PStr("3.5")],
      [duration |-> PFloat(37)],
      [duration |-> PStr("week")],
      [max_budget |-> PInt(20000)],
      [max_budget |-> PStr("lots")],
      [duration |-> PInt(3), max_budget |-> PStr("35000")],
      [duration |-> PStr("week"), max_budget |-> PInt(20000)],
      [duration |-> PInt(3), max_budget |-> PStr("lots")],
      [duration |-> PList, max_budget |-> PStr("lots")] }

InitRag ==
    /\ hotels_collection = EmptyDict
    /\ attractions_collection = EmptyDict
    /\ itineraries_collection = EmptyDict
    /\ index_calls = 0
    /\ last_rag = NoCall

\* an indexing call's outcome: encode (rag_pipeline.py:114, 161, 213) runs
\* before add, so a failing encoder leaves the collection as it was
IndexOutcome(collection, res) ==
    IF EncodeRaises(encoder_up) # None
    THEN [raised |-> EncodeRaises(encoder_up), collection |-> collection]
    ELSE res

\* _index_hotels(hotels)
IndexHotels(hotels) ==
    LET res == IndexOutcome(hotels_collection,
                            IndexHotelsResult(hotels_collection, hotels))
    IN  /\ index_calls < MaxIndexCalls
        /\ hotels_collection' = res.collection
        /\ index_calls' = index_calls + 1
        /\ last_rag' = [op |-> "_index_hotels", batch |-> hotels,
                        raised |-> res.raised, before |-> hotels_collection]
        /\ UNCHANGED <<attractions_collection, itineraries_collection, prefVars,
                       encoder_up, serviceVars>>

\* _index_attractions(attractions)
IndexAttractions(attractions) ==
    LET res == IndexOutcome(attractions_collection,
                            IndexAttractionsResult(attractions_collection, attractions))
    IN  /\ index_calls < MaxIndexCalls
        /\ attractions_collection' = res.collection
        /\ index_calls' = index_calls + 1
        /\ last_rag' = [op |-> "_index_attractions", batch |-> attractions,
                        raised |-> res.raised, before |-> attractions_collection]
        /\ UNCHANGED <<hotels_collection, itineraries_collection, prefVars,
                       encoder_up, serviceVars>>

\* _index_itineraries(itineraries)
IndexItineraries(itineraries) ==
    LET res == IndexOutcome(itineraries_collection,
                            IndexItinerariesResult(itineraries_collection, itineraries))
    IN  /\ index_calls < MaxIndexCalls
        /\ itineraries_collection' = res.collection
        /\ index_calls' = index_calls + 1
        /\ last_rag' = [op |-> "_index_itineraries", batch |-> itineraries,
                        raised |-> res.raised, before |-> itineraries_collection]
        /\ UNCHANGED <<hotels_collection, attractions_collection, prefVars,
                       encoder_up, serviceVars>>

\* the searches that take filters
IsSearch(call) == call.op \in {"search_hotels", "search_itineraries"}

IsQuery(call) == IsSearch(call) \/ call.op = "search_attractions"

\* a search's outcomes: encode (rag_pipeline.py:230, 265, 282) runs first
QueryOutcomes(outs) ==
    IF EncodeRaises(encoder_up) # None
    THEN { [raised |-> EncodeRaises(encoder_up), results |-> <<>>] }
    ELSE outs

\* search_hotels(query, filters, n_results)
DoSearchHotels(query, filters, n_results) ==
    /\ \E out \in QueryOutcomes(SearchHotels(hotels_collection, query, filters,
                                            n_results)) :
           last_rag' = [op |-> "search_hotels", query |-> query,
                        filters |-> filters, n_results |-> n_results,
                        raised |-> out.raised, results |-> out.results]
    /\ UNCHANGED <<collections, index_calls, prefVars, encoder_up, serviceVars>>

\* search_attractions(query, n_results)
DoSearchAttractions(query, n_results) ==
    /\ \E out \in QueryOutcomes(SearchAttractions(attractions_collection, query,
                                                 n_results)) :
           last_rag' = [op |-> "search_attractions", query |-> query,
                        n_results |-> n_results,
                        raised |-> out.raised, results |-> out.results]
    /\ UNCHANGED <<collections, index_calls, prefVars, encoder_up, serviceVars>>

\* search_itineraries(query, filters, n_results)
DoSearchItineraries(query, filters, n_results) ==
    /\ \E out \in QueryOutcomes(SearchItineraries(itineraries_collection, query,
                                                 filters, n_results)) :
           last_rag' = [op |-> "search_itineraries", query |-> query,
                        filters |-> filters, n_results |-> n_results,
                        raised |-> out.raised, results |-> out.results]
    /\ UNCHANGED <<collections, index_calls, prefVars, encoder_up, serviceVars>>

DoIndexHotels == \E hotels \in HotelBatches : IndexHotels(hotels)

DoIndexAttractions == \E attractions \in AttractionBatches : IndexAttractions(attractions)

DoIndexItineraries == \E itineraries \in ItineraryBatches : IndexItineraries(itineraries)

\* A search changes no collection, so one is taken between indexing calls.
DoHotelSearch ==
    /\ ~IsQuery(last_rag)
    /\ \E query \in Queries, filters \in HotelFilters, n_results \in 1..MaxLimit :
           DoSearchHotels(query, filters, n_results)

DoAttractionSearch ==
    /\ ~IsQuery(last_rag)
    /\ \E query \in Queries, n_results \in 1..MaxLimit :
           DoSearchAttractions(query, n_results)

DoItinerarySearch ==
    /\ ~IsQuery(last_rag)
    /\ \E query \in Queries, filters \in ItineraryFilters, n_results \in 1..MaxLimit :
           DoSearchItineraries(query, filters, n_results)

RagNext ==
    \/ DoIndexHotels
    \/ DoIndexAttractions
    \/ DoIndexItineraries
    \/ DoHotelSearch
    \/ DoAttractionSearch
    \/ DoItinerarySearch

-----------------------------------------------------------------------------
(* Calls that exercise the profile maps and the factors read from them: one *)
(* user whose travel groups, requirements and season labels build up over   *)
(* several calls, scored on candidates that differ in one metadata field.   *)

MaxProfileCalls == 3

PRequirements == [special_requirements |-> <<"lift">>]

ProfileCalls ==
    { UCall("u1", <<IQuery>>, PFamily, "October"),
      UCall("u1", <<>>, PSolo, "May"),
      UCall("u1", <<>>, PCouple, "May"),
      UCall("u1", <<IQuery>>, PSeasonOct, "October"),
      UCall("u1", <<>>, PRequirements, "May") }

\* candidates with one document text
ItemPlain    == [document |-> "doc Taj",
                 metadata |-> [best_seasons |-> <<>>, amenities |-> <<>>,
                               type |-> "hostel"]]
ItemResort   == [document |-> "doc Taj",
                 metadata |-> [best_seasons |-> <<>>, amenities |-> <<>>,
                               type |-> "Resort"]]
ItemVilla    == [document |-> "doc Taj",
                 metadata |-> [best_seasons |-> <<>>, amenities |-> <<>>,
                               type |-> "villa"]]
ItemInSeason == [document |-> "doc Taj",
                 metadata |-> [best_seasons |-> <<"October">>, amenities |-> <<>>,
                               type |-> "hostel"]]
ItemNeutral  == [document |-> "doc Taj",
                 metadata |-> [best_seasons |-> <<>>, amenities |-> <<>>,
                               type |-> ""]]
ItemBare     == [document |-> "doc Taj", metadata |-> EmptyDict]

ProfileItemLists ==
    { <<ItemResort, ItemVilla, ItemPlain>>,
      <<ItemInSeason, ItemPlain, ItemLeela>>,
      <<ItemBare, ItemNeutral>>,
      <<ItemPlain, ItemPlain>> }

DoProfileUpdate ==
    /\ Len(calls) < MaxProfileCalls
    /\ \E c \in ProfileCalls :
           UpdatePreferences(c.user_id, c.interactions, c.profile, c.current_month)

DoProfileScore ==
    /\ last_scores = NoCall
    /\ \E items \in ProfileItemLists, current_month \in Months :
           Score("u1", items, "hotels", current_month)

ProfileNext == DoProfileUpdate \/ DoProfileScore

-----------------------------------------------------------------------------
(* Calls made while the encoder comes and goes: every operation that        *)
(* encodes, and the calls that return before they encode.                   *)

MaxEncoderCalls == 2

\* SentenceTransformer.encode starts raising (model not loaded, out of memory)
EncoderFails ==
    /\ encoder_up
    /\ encoder_up' = FALSE
    /\ UNCHANGED <<prefVars, ragVars, serviceVars>>

EncoderRecovers ==
    /\ ~encoder_up
    /\ encoder_up' = TRUE
    /\ UNCHANGED <<prefVars, ragVars, serviceVars>>

EncoderCalls ==
    { UCall("u1", <<IQuery>>, PSeasonMay, "May"),
      UCall("u1", <<>>, PCouple, "May") }

DoEncoderUpdate ==
    /\ Len(calls) < MaxEncoderCalls
    /\ \E c \in EncoderCalls :
           UpdatePreferences(c.user_id, c.interactions, c.profile, c.current_month)

DoEncoderScore ==
    \E items \in {<<>>, <<ItemPlain>>} : Score("u1", items, "hotels", "May")

DoEncoderIndex ==
    \/ IndexHotels(<<HotelA, HotelB>>)
    \/ IndexAttractions(<<AttrA, AttrB>>)
    \/ IndexItineraries(<<ItinA, ItinB>>)

DoEncoderSearch ==
    \/ DoSearchHotels("beach resort", EmptyDict, MaxLimit)
    \/ DoSearchAttractions("beach resort", MaxLimit)
    \/ DoSearchItineraries("beach resort", EmptyDict, MaxLimit)

EncoderNext ==
    \/ EncoderFails
    \/ EncoderRecovers
    \/ DoEncoderUpdate
    \/ DoEncoderScore
    \/ DoEncoderIndex
    \/ DoEncoderSearch

-----------------------------------------------------------------------------
(* Two update_preferences calls for one user running at the same time.  The *)
(* class takes no lock; `d[k] += w` is a read of d[k] and a later write, and *)
(* the membership test that chooses between `+=` and `=` comes before both. *)
(* The creation of a user's entry and the requirements update are taken     *)
(* together with the step they precede or follow.                           *)

MaxThreads == 2

Threads == 1..MaxThreads

Idle == [pc |-> "idle"]

\* the read-modify-write updates a call makes, in the order of
\* user_preferences.py:46-60
UpdateOps(profile, current_month) ==
    (IF Has(profile, "travel_season")
     THEN <<[map |-> "season", key |-> profile["travel_season"],
             by |-> SeasonWeight(profile["travel_season"], current_month)]>>
     ELSE <<>>)
    \o (IF Has(profile, "travel_group")
        THEN <<[map |-> "group", key |-> profile["travel_group"], by |-> 1]>>
        ELSE <<>>)
    \o (IF Has(profile, "preferred_amenities")
        THEN [k \in DOMAIN profile["preferred_amenities"] |->
                 [map |-> "amenity", key |-> profile["preferred_amenities"][k],
                  by |-> 1]]
        ELSE <<>>)

NoGroups == [types |-> EmptyDict, requirements |-> {}]

\* the weights or counts an update works on
CountsOf(map, user_id) ==
    CASE map = "season"  -> Get(seasonal_preferences, user_id, EmptyDict)
      [] map = "group"   -> Get(travel_group_preferences, user_id, NoGroups).types
      [] map = "amenity" -> Get(amenity_preferences, user_id, EmptyDict)

\* d[key] = value in the map an update works on
StoreCount(map, user_id, key, value, requirements) ==
    /\ seasonal_preferences' =
          IF map = "season"
          THEN Put(seasonal_preferences, user_id,
                   Put(CountsOf("season", user_id), key, value))
          ELSE seasonal_preferences
    /\ travel_group_preferences' =
          IF map = "group"
          THEN LET mine == Get(travel_group_preferences, user_id, NoGroups)
               IN  Put(travel_group_preferences, user_id,
                       [types |-> Put(mine.types, key, value),
                        requirements |-> mine.requirements \cup Range(requirements)])
          ELSE travel_group_preferences
    /\ amenity_preferences' =
          IF map = "amenity"
          THEN Put(amenity_preferences, user_id,
                   Put(CountsOf("amenity", user_id), key, value))
          ELSE amenity_preferences

\* A faulty variant of the write of `d[k] += w`: it adds to the value the map
\* holds now, as it would under a lock
WrittenValue_Atomic(current, read, by) == current + by

\* the value `d[k] += w` writes: the value it read, plus w
WrittenValue(current, read, by) == read + by

RaceCalls ==
    { UCall("u1", <<>>, [travel_season |-> "May"], "May"),
      UCall("u1", <<>>, [travel_group |-> "family",
                         special_requirements |-> <<"pool">>], "May"),
      UCall("u1", <<>>, [travel_season |-> "May",
                         preferred_amenities |-> <<"Pool">>], "October") }

\* a thread enters update_preferences
ThreadStart(t) ==
    /\ threads[t].pc = "idle"
    /\ \E c \in RaceCalls :
          LET ops == UpdateOps(c.profile, c.current_month)
          IN  threads' = [threads EXCEPT ![t] =
                             [pc |-> IF ops = <<>> THEN "done" ELSE "test",
                              call |-> c, ops |-> ops, done |-> <<>>]]
    /\ UNCHANGED <<prefVars, besideThreads>>

\* `if key in d:` (lines 117, 136, 151)
ThreadTest(t) ==
    /\ threads[t].pc = "test"
    /\ LET op == Head(threads[t].ops)
       IN  threads' = [threads EXCEPT ![t].pc =
                          IF op.key \in DOMAIN CountsOf(op.map, threads[t].call.user_id)
                          THEN "read" ELSE "set"]
    /\ UNCHANGED <<prefVars, besideThreads>>

\* the read of `d[key] += w`
ThreadRead(t) ==
    /\ threads[t].pc = "read"
    /\ LET op == Head(threads[t].ops)
       IN  threads' = [threads EXCEPT ![t] =
                          [pc |-> "write", call |-> threads[t].call,
                           ops |-> threads[t].ops, done |-> threads[t].done,
                           read |-> CountsOf(op.map, threads[t].call.user_id)[op.key]]]
    /\ UNCHANGED <<prefVars, besideThreads>>

\* what a thread has left once its first update is made
AfterStore(th) ==
    [pc |-> IF Tail(th.ops) = <<>> THEN "done" ELSE "test",
     call |-> th.call, ops |-> Tail(th.ops), done |-> Append(th.done, Head(th.ops))]

\* the write of `d[key] += w` (lines 118, 137, 152)
ThreadWrite(t) ==
    /\ threads[t].pc = "write"
    /\ LET op   == Head(threads[t].ops)
           call == threads[t].call
       IN  StoreCount(op.map, call.user_id, op.key,
                      WrittenValue(CountsOf(op.map, call.user_id)[op.key],
                                   threads[t].read, op.by),
                      Get(call.profile, "special_requirements", <<>>))
    /\ threads' = [threads EXCEPT ![t] = AfterStore(threads[t])]
    /\ UNCHANGED <<user_embeddings, preference_vectors, calls, last_update,
                   last_scores, besideThreads>>

\* `d[key] = w` (lines 120, 139, 154)
ThreadSet(t) ==
    /\ threads[t].pc = "set"
    /\ LET op   == Head(threads[t].ops)
           call == threads[t].call
       IN  StoreCount(op.map, call.user_id, op.key, op.by,
                      Get(call.profile, "special_requirements", <<>>))
    /\ threads' = [threads EXCEPT ![t] = AfterStore(threads[t])]
    /\ UNCHANGED <<user_embeddings, preference_vectors, calls, last_update,
                   last_scores, besideThreads>>

DoThreadStart == \E t \in Threads : ThreadStart(t)

DoThreadTest == \E t \in Threads : ThreadTest(t)

DoThreadRead == \E t \in Threads : ThreadRead(t)

DoThreadWrite == \E t \in Threads : ThreadWrite(t)

DoThreadSet == \E t \in Threads : ThreadSet(t)

\* a call that ran alone before the two that overlap
DoRaceSetup ==
    /\ calls = <<>>
    /\ \A t \in Threads : threads[t].pc = "idle"
    /\ \E c \in RaceCalls :
           UpdatePreferences(c.user_id, c.interactions, c.profile, c.current_month)

RaceNext ==
    \/ DoRaceSetup
    \/ DoThreadStart
    \/ DoThreadTest
    \/ DoThreadRead
    \/ DoThreadWrite
    \/ DoThreadSet

-----------------------------------------------------------------------------
(* BookingAgent and UserProfileService.  A booking is a dict; the keys it   *)
(* does not have yet are absent.  The clock is read in whole seconds, the   *)
(* resolution of the '%Y%m%d%H%M%S' stamp that ends a booking id.  Saving a *)
(* profile writes a file and may raise.                                     *)

MaxClock == 1
MaxInitiations == 2

\* datetime.now().strftime('%Y%m%d%H%M%S')
Stamp(now) == ToString(now)

\* booking_agent.py:26
BookingId(user_id, item_type, now) == user_id \o item_type \o Stamp(now)

\* booking_agent.py:28-36
BookingRequest(user_id, item_type, item_id, details, now) ==
    [booking_id |-> BookingId(user_id, item_type, now), user_id |-> user_id,
     item_type |-> item_type, item_id |-> item_id, details |-> details,
     status |-> "pending", created_at |-> now]

\* user_profile.py:102-119, the fields the model follows
DefaultProfile(user_id) == [user_id |-> user_id, bookings |-> <<>>]

\* get_profile: the stored profile, or a new one that is saved at once
GetProfile(stored, user_id, save_ok) ==
    IF user_id \in DOMAIN stored
    THEN [raised |-> None, profile |-> stored[user_id], stored |-> stored]
    ELSE IF save_ok
    THEN [raised |-> None, profile |-> DefaultProfile(user_id),
          stored |-> Put(stored, user_id, DefaultProfile(user_id))]
    ELSE [raised |-> "OSError", stored |-> stored]

\* add_booking(user_id, booking) at the clock reading now: the booking dict
\* is stamped (line 76) before the profile is saved
AddBooking(stored, user_id, booking, now, save_ok) ==
    LET got     == GetProfile(stored, user_id, save_ok)
        stamped == Put(booking, "timestamp", now)
    IN  IF got.raised # None
        THEN [raised |-> got.raised, stored |-> stored, booking |-> booking]
        ELSE IF ~save_ok
        THEN [raised |-> "OSError", stored |-> got.stored, booking |-> stamped]
        ELSE [raised |-> None, booking |-> stamped,
              stored |-> Put(got.stored, user_id,
                             [got.profile EXCEPT
                                 !.bookings = Append(got.profile.bookings, stamped)])]

InitBooking ==
    /\ pending_bookings = EmptyDict
    /\ profiles = EmptyDict
    /\ clock = 0
    /\ issued = <<>>
    /\ last_booking = NoCall

\* a second passes
Tick ==
    /\ clock < MaxClock
    /\ clock' = clock + 1
    /\ UNCHANGED <<pending_bookings, profiles, issued, last_booking>>
    /\ UNCHANGED besideBooking

\* initiate_booking(user_id, item_type, item_id, details)
InitiateBooking(user_id, item_type, item_id, details) ==
    LET booking_request == BookingRequest(user_id, item_type, item_id, details, clock)
        booking_id      == booking_request["booking_id"]
    IN  /\ pending_bookings' = Put(pending_bookings, booking_id, booking_request)
        /\ issued' = Append(issued, booking_id)
        /\ last_booking' = [op |-> "initiate_booking", booking_id |-> booking_id,
                            success |-> TRUE, raised |-> None,
                            pending_before |-> pending_bookings]
        /\ UNCHANGED <<profiles, clock>>
        /\ UNCHANGED besideBooking

\* confirm_booking(booking_id); save_ok tells whether the profile file can be
\* written.  The weather and emergency lookups change no state.
ConfirmBooking(booking_id, save_ok) ==
    IF booking_id \notin DOMAIN pending_bookings
    THEN /\ last_booking' = [op |-> "confirm_booking", booking_id |-> booking_id,
                             success |-> FALSE, raised |-> None,
                             message |-> "Booking not found"]
         /\ UNCHANGED <<pending_bookings, profiles, clock, issued>>
         /\ UNCHANGED besideBooking
    ELSE LET booking == Put(Put(pending_bookings[booking_id], "status", "confirmed"),
                            "confirmed_at", clock)
             added   == AddBooking(profiles, booking["user_id"], booking, clock, save_ok)
         IN  /\ profiles' = added.stored
             /\ pending_bookings' =
                   IF added.raised # None
                   THEN Put(pending_bookings, booking_id, added.booking)
                   ELSE [id \in DOMAIN pending_bookings \ {booking_id} |->
                            pending_bookings[id]]
             /\ last_booking' =
                   IF added.raised # None
                   THEN [op |-> "confirm_booking", booking_id |-> booking_id,
                         raised |-> added.raised]
                   ELSE [op |-> "confirm_booking", booking_id |-> booking_id,
                         success |-> TRUE, raised |-> None,
                         booking |-> added.booking]
             /\ UNCHANGED <<clock, issued>>
             /\ UNCHANGED besideBooking

\* cancel_booking(booking_id)
CancelBooking(booking_id) ==
    /\ IF booking_id \in DOMAIN pending_bookings
       THEN /\ pending_bookings' = [id \in DOMAIN pending_bookings \ {booking_id} |->
                                       pending_bookings[id]]
            /\ last_booking' = [op |-> "cancel_booking", booking_id |-> booking_id,
                                success |-> TRUE, raised |-> None,
                                message |-> "Booking cancelled"]
       ELSE /\ pending_bookings' = pending_bookings
            /\ last_booking' = [op |-> "cancel_booking", booking_id |-> booking_id,
                                success |-> FALSE, raised |-> None,
                                message |-> "Booking not found"]
    /\ UNCHANGED <<profiles, clock, issued>>
    /\ UNCHANGED besideBooking

\* get_booking_details(booking_id): the pending booking, or None
GetBookingDetails(booking_id) ==
    /\ last_booking' = [op |-> "get_booking_details", booking_id |-> booking_id,
                        raised |-> None,
                        found |-> booking_id \in DOMAIN pending_bookings]
    /\ UNCHANGED <<pending_bookings, profiles, clock, issued>>
    /\ UNCHANGED besideBooking

BookingRequests ==
    { [user_id |-> "u1", item_type |-> "hotel", item_id |-> "A",
       details |-> [city |-> "Kochi"]],
      [user_id |-> "u1", item_type |-> "hotel", item_id |-> "B", details |-> EmptyDict],
      [user_id |-> "u2", item_type |-> "attraction", item_id |-> "T1",
       details |-> EmptyDict] }

\* the ids a caller may present: those handed out, and one never handed out
KnownIds == Range(issued) \cup {"u9hotel0"}

DoInitiateBooking ==
    /\ Len(issued) < MaxInitiations
    /\ \E r \in BookingRequests :
           InitiateBooking(r.user_id, r.item_type, r.item_id, r.details)

DoConfirmBooking ==
    \E booking_id \in KnownIds, save_ok \in BOOLEAN : ConfirmBooking(booking_id, save_ok)

DoCancelBooking == \E booking_id \in KnownIds : CancelBooking(booking_id)

DoGetBookingDetails == \E booking_id \in KnownIds : GetBookingDetails(booking_id)

BookingNext ==
    \/ Tick
    \/ DoInitiateBooking
    \/ DoConfirmBooking
    \/ DoCancelBooking
    \/ DoGetBookingDetails

-----------------------------------------------------------------------------
(* TravelAgent.process_query.  What a call does to the stored conversation  *)
(* depends on where, if anywhere, it raises: before the two entries are     *)
(* appended (the profile cannot be read, a handler raises) or after         *)
(* (update_profile cannot save).  The n-th call carries the message 'q<n>'  *)
(* and its handler answers 'a<n>'.                                          *)

MaxQueries == 11

\* travel_agent.py:114: the entries kept, [-20:]
HistoryLimit == 20

\* list[-n:]
LastN(list, n) ==
    IF Len(list) <= n THEN list ELSE SubSeq(list, Len(list) - n + 1, Len(list))

Entry(role, content) == [role |-> role, content |-> content]

ErrorReply ==
    [message |-> "Oops! I ran into a problem processing that. Could you try rephrasing?",
     intent |-> "error"]

InitAgent ==
    /\ conversations = EmptyDict
    /\ queries = 0
    /\ last_query = NoCall

\* process_query(user_message, user_id); reply is the message of the handler's
\* response and raises tells where the call raises: "no", "before" the
\* conversation is appended to (lines 60-99) or "after" (line 117)
ProcessQuery(user_message, user_id, reply, raises) ==
    LET started  == Get(conversations, user_id, <<>>)
        appended == started \o <<Entry("user", user_message),
                                 Entry("assistant", reply)>>
    IN  /\ conversations' =
              Put(conversations, user_id,
                  IF raises = "before" THEN started
                  ELSE LastN(appended, HistoryLimit))
        /\ queries' = queries + 1
        /\ last_query' =
              [op |-> "process_query", user_id |-> user_id,
               user_message |-> user_message, reply |-> reply,
               before |-> started,
               response |-> IF raises = "no"
                            THEN [message |-> reply, intent |-> "other"]
                            ELSE ErrorReply]
        /\ UNCHANGED besideAgent

DoProcessQuery ==
    /\ queries < MaxQueries
    /\ \E raises \in {"no", "before", "after"} :
           ProcessQuery("q" \o ToString(queries + 1), "u1",
                        "a" \o ToString(queries + 1), raises)

AgentNext == DoProcessQuery

-----------------------------------------------------------------------------
(* LLMHandler.generate_safe.  A text is held as its runs: a sequence of      *)
(* [c, n] for n >= 1 copies of the character c, adjacent runs differing, so  *)
(* that the 4000-character guard is reached with short sequences.  A canned *)
(* reply is held as one run of itself.                                      *)

Run(c, n) == [c |-> c, n |-> n]

RECURSIVE Merge(_)
\* the runs of a sequence of runs in which neighbours may have the same character
Merge(t) ==
    IF Len(t) <= 1 THEN t
    ELSE IF t[1].c = t[2].c
    THEN Merge(<<Run(t[1].c, t[1].n + t[2].n)>> \o SubSeq(t, 3, Len(t)))
    ELSE <<t[1]>> \o Merge(Tail(t))

\* a + b
Concat(a, b) == Merge(a \o b)

RECURSIVE TextLen(_)
\* len(text)
TextLen(t) == IF t = <<>> THEN 0 ELSE Head(t).n + TextLen(Tail(t))

RECURSIVE Take(_, _)
\* text[:k]
Take(t, k) ==
    IF k <= 0 \/ t = <<>> THEN <<>>
    ELSE IF Head(t).n <= k THEN <<Head(t)>> \o Take(Tail(t), k - Head(t).n)
    ELSE <<Run(Head(t).c, k)>>

RECURSIVE Drop(_, _)
\* text[k:]
Drop(t, k) ==
    IF k <= 0 \/ t = <<>> THEN t
    ELSE IF Head(t).n <= k THEN Drop(Tail(t), k - Head(t).n)
    ELSE <<Run(Head(t).c, Head(t).n - k)>> \o Tail(t)

\* text.strip()
Strip(t) ==
    LET left == IF t # <<>> /\ Head(t).c = " " THEN Tail(t) ELSE t
    IN  IF left # <<>> /\ left[Len(left)].c = " "
        THEN SubSeq(left, 1, Len(left) - 1) ELSE left

\* str.lower() on the characters of the model
LowerChar(c) == CASE c = "H" -> "h" [] c = "O" -> "o" [] OTHER -> c

\* text.lower()
TextLower(t) == Merge([k \in DOMAIN t |-> Run(LowerChar(t[k].c), t[k].n)])

\* text.startswith(prefix)
StartsWith(t, prefix) == Take(t, TextLen(prefix)) = prefix

\* text.rsplit('.', 1)[0]: the text before its last '.', or all of it
BeforeLastDot(t) ==
    IF \A k \in DOMAIN t : t[k].c # "."
    THEN t
    ELSE LET k == CHOOSE k \in DOMAIN t :
                     t[k].c = "." /\ \A j \in DOMAIN t : j > k => t[j].c # "."
         IN  SubSeq(t, 1, k - 1)
             \o (IF t[k].n > 1 THEN <<Run(".", t[k].n - 1)>> ELSE <<>>)

RECURSIVE Flatten(_)
\* the characters of a short text, one by one
Flatten(t) ==
    IF t = <<>> THEN <<>>
    ELSE [i \in 1..Head(t).n |-> Head(t).c] \o Flatten(Tail(t))

\* word in text
Contains(t, word) ==
    \E chars \in {Flatten(t)} :
        \E i \in 0..(Len(chars) - Len(word)) :
            \A j \in DOMAIN word : chars[i + j] = word[j]

Canned(s) == <<Run(s, 1)>>

\* llm_handler.py:172
Greeting == Canned("I'm here to help - what would you like to do today?")

\* _fallback_response(prompt)
FallbackResponse(prompt) ==
    LET prompt_lower == TextLower(prompt)
        has(word)    == Contains(prompt_lower, word)
    IN  IF has(<<"h", "i">>) \/ has(<<"h", "e", "l", "l", "o">>)
           \/ has(<<"h", "e", "y">>)
           \/ has(<<"g", "r", "e", "e", "t", "i", "n", "g", "s">>)
        THEN Canned("Hello! Welcome to Kerala Travel Assistant. How can I help plan your trip today?")
        ELSE IF has(<<"w", "e", "a", "t", "h", "e", "r">>)
        THEN Canned("I can help you check the weather conditions for your destination. Please specify which city in Kerala you're interested in.")
        ELSE IF has(<<"h", "o", "t", "e", "l">>)
        THEN Canned("I can help you find hotels in Kerala. Which city would you like to explore?")
        ELSE IF has(<<"i", "t", "i", "n", "e", "r", "a", "r", "y">>)
                \/ has(<<"p", "l", "a", "n">>) \/ has(<<"t", "r", "i", "p">>)
        THEN Canned("I'd be happy to help you plan your Kerala itinerary. How many days are you planning to visit?")
        ELSE Canned("I'm here to help you plan your Kerala trip. You can ask me about hotels, attractions, weather, or creating an itinerary!")

\* generate(prompt): the pipeline is not loaded or raises ("fallback"), or it
\* answers generated_text, from which a leading copy of the prompt is removed
\* (lines 146-149)
Generate(prompt, outcome) ==
    IF outcome.kind = "fallback" THEN FallbackResponse(prompt)
    ELSE IF StartsWith(outcome.generated_text, prompt)
    THEN Strip(Drop(outcome.generated_text, TextLen(prompt)))
    ELSE outcome.generated_text

\* llm_handler.py:185: the part of the prompt the echo guard compares
EchoWindow == 200

\* llm_handler.py:193: the longest text returned as it is
LengthGuard == 4000

Min(a, b) == IF a <= b THEN a ELSE b

\* lines 185-189: a text that starts with the prompt, whatever the case,
\* loses it unless nothing would be left
EchoGuard(prompt, text) ==
    IF StartsWith(TextLower(text),
                  Take(TextLower(prompt), Min(EchoWindow, TextLen(prompt))))
       /\ Strip(Drop(text, TextLen(prompt))) # <<>>
    THEN Strip(Drop(text, TextLen(prompt)))
    ELSE text

\* lines 193-194: a long text is cut at the last '.' of its first 4000
\* characters
LengthCut(text) ==
    IF TextLen(text) > LengthGuard
    THEN Concat(BeforeLastDot(Take(text, LengthGuard)), <<Run(".", 1)>>)
    ELSE text

MaxRetries == 2

PText(runs) == [t |-> "str", runs |-> runs]

\* (prompt or "").strip()
PromptText(prompt) == IF prompt.t = "none" THEN <<>> ELSE Strip(prompt.runs)

Hi == <<Run("H", 1), Run("i", 1)>>

Prompts ==
    { PNone, PText(<<>>), PText(<<Run(" ", 2)>>), PText(Hi),
      PText(<<Run(" ", 1), Run("z", 2), Run(" ", 1)>>) }

Answer == <<Run("a", 3)>>

\* what the pipeline may answer to a prompt
GeneratedTexts(prompt) ==
    { <<>>, <<Run(" ", 2)>>,
      <<Run(" ", 1)>> \o Answer \o <<Run(" ", 1)>>,
      prompt, prompt \o <<Run(" ", 1)>> \o Answer,
      TextLower(prompt), TextLower(prompt) \o <<Run(" ", 1)>> \o Answer,
      <<Run("a", 3000), Run(".", 1), Run("b", 1500)>>,
      <<Run(".", 1), Run("b", 4500)>>,
      <<Run("b", 4500)>> }

GenerateOutcomes(prompt) ==
    { [kind |-> "fallback"] }
    \cup { [kind |-> "text", generated_text |-> g] : g \in GeneratedTexts(prompt) }

InitLlm == llm = Idle

\* A faulty variant of the loop test: one pass more
WhileAttempt_OneMore(attempt, retries) == attempt <= retries + 1

\* while attempt <= retries (line 175)
WhileAttempt(attempt, retries) == attempt <= retries

\* generate_safe(prompt, retries=retries): lines 170-174
GenerateSafeStart(prompt, retries) ==
    /\ llm.pc \in {"idle", "done"}
    /\ llm' = IF PromptText(prompt) = <<>>
              THEN [pc |-> "done", given |-> prompt, prompt |-> <<>>,
                    retries |-> retries, attempt |-> 0, generated |-> <<>>,
                    result |-> Greeting]
              ELSE [pc |-> "loop", given |-> prompt, prompt |-> PromptText(prompt),
                    retries |-> retries, attempt |-> 0, generated |-> <<>>]
    /\ UNCHANGED besideLlm

\* one pass of the while loop (lines 175-208): generate answers; raises is
\* an exception in the try (line 205), timed_out the test of line 202
GenerateSafeAttempt(outcome, raises, timed_out) ==
    /\ llm.pc = "loop"
    /\ WhileAttempt(llm.attempt, llm.retries)
    /\ \E returned \in {Generate(llm.prompt, outcome)} :        \* line 179
       \E stripped \in {Strip(returned)} :                      \* line 183
       \E trimmed \in {EchoGuard(llm.prompt, stripped)} :
       \E text \in {LengthCut(trimmed)} :
       \E generated \in {Append(llm.generated,
                                IF raises THEN [raised |-> TRUE]
                                ELSE [raised |-> FALSE, text |-> text])} :
           llm' =
             IF ~raises /\ text # <<>>                           \* line 196
             THEN [llm EXCEPT !.pc = "done", !.generated = generated]
                  @@ [result |-> text]
             ELSE [llm EXCEPT !.pc = IF ~raises /\ timed_out THEN "break" ELSE "loop",
                              !.attempt = llm.attempt + 1,
                              !.generated = generated]
    /\ UNCHANGED besideLlm

\* line 211, after the loop
GenerateSafeFallback ==
    /\ \/ llm.pc = "loop" /\ ~WhileAttempt(llm.attempt, llm.retries)
       \/ llm.pc = "break"
    /\ llm' = [llm EXCEPT !.pc = "done"] @@ [result |-> FallbackResponse(llm.prompt)]
    /\ UNCHANGED besideLlm

DoGenerateSafeStart ==
    \E prompt \in Prompts, retries \in 0..MaxRetries : GenerateSafeStart(prompt, retries)

DoGenerateSafeAttempt ==
    /\ llm.pc = "loop"
    /\ \E outcome \in GenerateOutcomes(llm.prompt), raises \in BOOLEAN,
          timed_out \in BOOLEAN :
           GenerateSafeAttempt(outcome, raises, timed_out)

LlmNext == DoGenerateSafeStart \/ DoGenerateSafeAttempt \/ GenerateSafeFallback

-----------------------------------------------------------------------------
(* StreamingVoiceService.  A chunk is a sequence of bytes; the audio handed *)
(* to Whisper is held in units of 1/32768.                                  *)

MaxChunks == 3

RECURSIVE JoinBytes_Reversed(_)
\* A faulty variant of the join: the chunks in reverse order
JoinBytes_Reversed(chunks) ==
    IF chunks = <<>> THEN <<>>
    ELSE JoinBytes_Reversed(Tail(chunks)) \o Head(chunks)

RECURSIVE JoinBytes(_)
\* b"".join(chunks)
JoinBytes(chunks) == IF chunks = <<>> THEN <<>> ELSE Head(chunks) \o JoinBytes(Tail(chunks))

\* a little-endian 16-bit signed integer
Int16(lo, hi) ==
    LET unsigned == lo + 256 * hi
    IN  IF unsigned >= 32768 THEN unsigned - 65536 ELSE unsigned

\* np.frombuffer(data, dtype=np.int16) raises ValueError for a buffer whose
\* size is not a multiple of the element size
FromBufferRaises(data) == Len(data) % 2 = 1

\* np.frombuffer(data, dtype=np.int16).astype(np.float32) / 32768.0, in
\* units of 1/32768
AudioData(data) ==
    [k \in 1..(Len(data) \div 2) |-> Int16(data[2 * k - 1], data[2 * k])]

\* VoiceService.transcribe_audio: what Whisper hears in the audio, or '' when
\* anything in it raises (lines 44-46)
TranscribeAudio(audio_data, whisper_ok) ==
    IF whisper_ok THEN <<"heard", audio_data>> ELSE <<>>

InitVoice ==
    /\ voice = [audio_buffer |-> <<>>, is_recording |-> FALSE]
    /\ voice_log = [received |-> <<>>, last |-> [op |-> "none"]]

\* start_recording()
StartRecording ==
    /\ voice' = [audio_buffer |-> <<>>, is_recording |-> TRUE]
    /\ voice_log' = [received |-> <<>>, last |-> [op |-> "start_recording"]]
    /\ UNCHANGED besideVoice

\* process_audio_chunk(audio_chunk)
ProcessAudioChunk(audio_chunk) ==
    /\ voice' = IF voice.is_recording
                THEN [voice EXCEPT !.audio_buffer = Append(@, audio_chunk)]
                ELSE voice
    /\ voice_log' = [received |-> Append(voice_log.received, audio_chunk),
                     last |-> [op |-> "process_audio_chunk",
                               audio_chunk |-> audio_chunk,
                               was_recording |-> voice.is_recording,
                               buffer_before |-> voice.audio_buffer]]
    /\ UNCHANGED besideVoice

\* stop_recording()
StopRecording(whisper_ok) ==
    LET data == JoinBytes(voice.audio_buffer)
        last == [op |-> "stop_recording", buffer_before |-> voice.audio_buffer]
    IN  /\ IF voice.audio_buffer = <<>>
           THEN /\ voice' = [voice EXCEPT !.is_recording = FALSE]
                /\ voice_log' = [voice_log EXCEPT !.last =
                       last @@ [returned |-> TRUE, transcribed |-> FALSE,
                                value |-> <<>>]]
           ELSE IF FromBufferRaises(data)
           THEN /\ voice' = [voice EXCEPT !.is_recording = FALSE]
                /\ voice_log' = [voice_log EXCEPT !.last =
                       last @@ [returned |-> FALSE, transcribed |-> FALSE]]
           ELSE /\ voice' = [audio_buffer |-> <<>>, is_recording |-> FALSE]
                /\ voice_log' = [voice_log EXCEPT !.last =
                       last @@ [returned |-> TRUE, transcribed |-> TRUE,
                                audio_data |-> AudioData(data),
                                value |-> TranscribeAudio(AudioData(data), whisper_ok)]]
        /\ UNCHANGED besideVoice

\* the chunks a client may send: b'', one byte, and samples 1, -1, -32768
AudioChunks == { <<>>, <<1>>, <<1, 0>>, <<255, 255>>, <<0, 128, 1, 0>> }

\* handle_websocket_message, type "start_recording"
DoStartRecording == StartRecording

\* handle_websocket_message, type "audio_chunk"
DoProcessAudioChunk ==
    /\ Len(voice_log.received) < MaxChunks
    /\ \E audio_chunk \in AudioChunks : ProcessAudioChunk(audio_chunk)

\* handle_websocket_message, type "stop_recording"
DoStopRecording == \E whisper_ok \in BOOLEAN : StopRecording(whisper_ok)

VoiceNext == DoStartRecording \/ DoProcessAudioChunk \/ DoStopRecording

-----------------------------------------------------------------------------
(* ConnectionManager                                                        *)

MaxSessions == 3

\* del d[k]
DelKey(d, k) == [x \in DOMAIN d \ {k} |-> d[x]]

InitConn ==
    /\ active_connections = EmptyDict
    /\ user_sessions = EmptyDict

\* connect(websocket, user_id, session_id); nothing is stored when
\* websocket.accept() raises
Connect(websocket, user_id, session_id, accepted) ==
    /\ IF accepted
       THEN /\ active_connections' = Put(active_connections, session_id, websocket)
            /\ user_sessions' =
                 Put(user_sessions, user_id,
                     Get(user_sessions, user_id, {}) \cup {session_id})
       ELSE UNCHANGED connVars
    /\ UNCHANGED besideConn

\* disconnect(user_id, session_id)
Disconnect(user_id, session_id) ==
    /\ active_connections' =
         IF Has(active_connections, session_id)
         THEN DelKey(active_connections, session_id) ELSE active_connections
    /\ user_sessions' =
         IF Has(user_sessions, user_id)
         THEN IF user_sessions[user_id] \ {session_id} = {}
              THEN DelKey(user_sessions, user_id)
              ELSE Put(user_sessions, user_id, user_sessions[user_id] \ {session_id})
         ELSE user_sessions
    /\ UNCHANGED besideConn

ConnUsers == {"u1", "u2"}

SessionIds == {"s" \o ToString(k) : k \in 1..MaxSessions}

WebSockets == {"ws1", "ws2"}

DoConnect ==
    \E websocket \in WebSockets, user_id \in ConnUsers, session_id \in SessionIds,
       accepted \in BOOLEAN :
        Connect(websocket, user_id, session_id, accepted)

DoDisconnect ==
    \E user_id \in ConnUsers, session_id \in SessionIds :
        Disconnect(user_id, session_id)

ConnNext == DoConnect \/ DoDisconnect

-----------------------------------------------------------------------------
(* ItineraryAgent.generate_itinerary: the costs.  An amount is an exact      *)
(* fraction [n, d] in lowest terms; the weather, the summaries and the      *)
(* activities, which carry no cost, are left out of the plans.              *)

MaxDays == 3

\* n / d
Q(n, d) == LET g == Gcd(Abs(n), d) IN [n |-> n \div g, d |-> d \div g]

QAdd(x, y) == Q(x.n * y.d + y.n * x.d, x.d * y.d)

QMul(x, y) == Q(x.n * y.n, x.d * y.d)

QLe(x, y) == x.n * y.d <= y.n * x.d

\* int(x) for x >= 0
QInt(x) == x.n \div x.d

RECURSIVE QSum(_)
QSum(amounts) ==
    IF amounts = <<>> THEN Q(0, 1) ELSE QAdd(Head(amounts), QSum(Tail(amounts)))

\* _default_meals(daily_budget)
DefaultMeals(daily_budget) ==
    << [type |-> "Breakfast", estimated_cost |-> QMul(daily_budget, Q(10, 100))],
       [type |-> "Lunch", estimated_cost |-> QMul(daily_budget, Q(15, 100))],
       [type |-> "Dinner", estimated_cost |-> QMul(daily_budget, Q(15, 100))] >>

MealCosts(meals) == [k \in DOMAIN meals |-> meals[k].estimated_cost]

\* A faulty variant of the price limit: the whole daily budget
MaxPrice_WholeDay(daily_budget) == QInt(daily_budget)

\* the max_price filter of line 106: int(daily_budget * 0.5)
MaxPrice(daily_budget) == QInt(QMul(daily_budget, Q(5, 10)))

\* _generate_day_plan(day, interests, daily_budget, preferences)
GenerateDayPlan(day, daily_budget) ==
    [day |-> day, meals |-> DefaultMeals(daily_budget), estimated_cost |-> Q(0, 1)]

\* _customize_template(template, interests, budget, preferences)
CustomizeTemplate(template, budget) ==
    LET duration_days == Get(template.metadata, "duration", 5)
    IN  [duration_days |-> duration_days, theme |-> "template",
         daily_plan |-> [day \in 1..duration_days |->
                            GenerateDayPlan(day, Q(budget, duration_days))]]

\* the plan of one day of _generate_from_scratch (lines 113-145)
ScratchDayPlan(day, daily_budget, hotel_results) ==
    LET meals == DefaultMeals(daily_budget)
        stays == hotel_results # <<>> /\ day <= Len(hotel_results)
        price == IF stays THEN Get(hotel_results[day].metadata, "price", 0) ELSE 0
    IN  [day |-> day,
         accommodation |-> IF stays THEN [price |-> price] ELSE PNone,
         meals |-> meals,
         estimated_cost |-> QAdd(Q(price, 1), QSum(MealCosts(meals)))]

\* _generate_from_scratch(duration_days, interests, budget, preferences)
GenerateFromScratch(duration_days, budget, hotel_results) ==
    [duration_days |-> duration_days, theme |-> "custom",
     daily_plan |-> [day \in 1..duration_days |->
                        ScratchDayPlan(day, Q(budget, duration_days), hotel_results)]]

\* day.get('accommodation') is a dict
Stays(day) == Get(day, "accommodation", PNone) # PNone

\* acc_cost of a day in _calculate_itinerary_cost
AccommodationCost(day) ==
    IF Stays(day) THEN Q(Get(day.accommodation, "price", 0), 1) ELSE Q(0, 1)

\* _calculate_itinerary_cost(itinerary)
CalculateItineraryCost(itinerary) ==
    LET accommodation == QSum([k \in DOMAIN itinerary.daily_plan |->
                                  AccommodationCost(itinerary.daily_plan[k])])
        meals == QSum([k \in DOMAIN itinerary.daily_plan |->
                          QSum(MealCosts(itinerary.daily_plan[k].meals))])
        total == QAdd(accommodation, meals)
        transport == QMul(total, Q(1, 10))
    IN  [total |-> QAdd(total, transport),
         breakdown |-> [accommodation |-> accommodation, meals |-> meals,
                        transport |-> transport]]

\* generate_itinerary(duration_days, interests, budget): templates is what
\* search_itineraries returned, hotel_results what search_hotels returns
GenerateItinerary(duration_days, budget, templates, hotel_results) ==
    LET itinerary == IF templates # <<>>
                     THEN CustomizeTemplate(templates[1], budget)
                     ELSE GenerateFromScratch(duration_days, budget, hotel_results)
    IN  /\ last_itinerary' =
             [op |-> "generate_itinerary", duration_days |-> duration_days,
              budget |-> budget, from_template |-> templates # <<>>,
              hotel_results |-> IF templates # <<>> THEN <<>> ELSE hotel_results,
              itinerary |-> itinerary @@
                            [estimated_cost |-> CalculateItineraryCost(itinerary)]]
        /\ UNCHANGED besidePlanner

Budgets == {1, 3, 999, 1000, 30000}

\* templates as search_itineraries may return them: with the duration asked
\* for, with another one, or without the field
TemplateResults ==
    {<<>>} \cup { <<[metadata |-> [duration |-> k]]>> : k \in 0..MaxDays }
           \cup { <<[metadata |-> [theme |-> "beach"]]>> }

\* hotels within the max_price filter: free, at the limit, without a price
HotelsWithin(max_price) ==
    { [metadata |-> [price |-> 0]], [metadata |-> [price |-> max_price]],
      [metadata |-> [name |-> "Hotel"]] }

\* up to n_results = duration_days hotels, the same kind every night or
\* the limit price first
HotelResults(duration_days, max_price) ==
    {<<>>}
    \cup { [k \in 1..n |-> h] : n \in 1..duration_days, h \in HotelsWithin(max_price) }
    \cup { [k \in 1..n |-> IF k = 1 THEN [metadata |-> [price |-> max_price]]
                                     ELSE [metadata |-> [price |-> 0]]] :
              n \in 1..duration_days }

DoGenerateItinerary ==
    \E duration_days \in 1..MaxDays, budget \in Budgets, templates \in TemplateResults :
        \E hotel_results \in
              HotelResults(duration_days, MaxPrice(Q(budget, duration_days))) :
            GenerateItinerary(duration_days, budget, templates, hotel_results)

PlannerNext == DoGenerateItinerary

-----------------------------------------------------------------------------
(* Specifications                                                           *)

InitServices ==
    /\ threads = [t \in Threads |-> Idle]
    /\ InitBooking
    /\ InitAgent
    /\ InitLlm
    /\ InitVoice
    /\ InitConn
    /\ last_itinerary = NoCall

Init == InitPrefs /\ InitRag /\ encoder_up = TRUE /\ InitServices

\* the personalisation model
Next == PrefsNext

Spec == Init /\ [][Next]_vars

\* the retrieval pipeline
SpecRag == Init /\ [][RagNext]_vars

\* the profile maps and the factors of the scorer
SpecProfile == Init /\ [][ProfileNext]_vars

\* every encoding operation under an encoder that may fail
SpecEncoder == Init /\ [][EncoderNext]_vars

\* overlapping update_preferences calls
SpecRace == Init /\ [][RaceNext]_vars

\* the booking workflow
SpecBooking == Init /\ [][BookingNext]_vars

\* the conversation log
SpecAgent == Init /\ [][AgentNext]_vars

\* the itinerary costs
SpecPlanner == Init /\ [][PlannerNext]_vars

\* the connection manager
SpecConn == Init /\ [][ConnNext]_vars

\* the streaming voice service
SpecVoice == Init /\ [][VoiceNext]_vars

\* generate_safe; a call that has started keeps running
SpecLlm == Init /\ [][LlmNext]_vars
              /\ WF_vars(DoGenerateSafeAttempt) /\ WF_vars(GenerateSafeFallback)

-----------------------------------------------------------------------------
(* Properties of get_personalized_scores                                    *)

Scored == last_scores.op = "get_personalized_scores" /\ last_scores.raised = None

\* a score in the closed interval [0, 1]
InUnitInterval(r) == BigLe(r.n, r.d)

AllEqual(scores) ==
    \A i, j \in DOMAIN scores : REq(scores[i], scores[j])

\* C1: get_personalized_scores returns one score per candidate, in the
\* candidates' order (position k holds the score of candidate k, so a
\* candidate with a higher raw score never gets a lower score), and every
\* returned score lies in [0, 1] unless all raw scores are equal.
C1_OneScorePerCandidateInUnitInterval ==
    (Scored /\ last_scores.items # <<>>) =>
        LET items  == last_scores.items
            raw    == last_scores.result.raw
            scores == last_scores.result.scores
        IN  /\ Len(scores) = Len(items)
            /\ raw # <<>> =>
                  /\ Len(raw) = Len(items)
                  /\ \A k \in DOMAIN items :
                        REq(raw[k], RawScore(last_scores.user_id, items[k],
                                             last_scores.category,
                                             last_scores.current_month))
                  /\ \A i, j \in DOMAIN items :
                        RLe(raw[i], raw[j]) => RLe(scores[i], scores[j])
            /\ \/ raw # <<>> /\ AllEqual(raw)
               \/ \A k \in DOMAIN scores : InUnitInterval(scores[k])

\* three candidates with three different raw scores have been scored: one gets
\* 0, one gets 1 and one lies strictly between
C1_Witness ==
    /\ Scored
    /\ Len(last_scores.items) = 3
    /\ ~AllEqual(last_scores.result.raw)
    /\ \E i, j, k \in DOMAIN last_scores.result.scores :
          LET scores == last_scores.result.scores
          IN  /\ REq(scores[i], Rat(0, 1))
              /\ REq(scores[j], ROne)
              /\ RLt(Rat(0, 1), scores[k]) /\ RLt(scores[k], ROne)

\* C2: when the user has neither a general embedding nor a vector for the
\* requested category, every candidate scores exactly 1.0, whatever seasonal,
\* group or amenity preferences the user has.
C2_NeutralWithoutEmbeddings ==
    (/\ Scored
     /\ last_scores.items # <<>>
     /\ ~HasUserEmb(last_scores.user_id)
     /\ ~HasCategoryEmb(last_scores.user_id, last_scores.category)) =>
        LET scores == last_scores.result.scores
        IN  /\ Len(scores) = Len(last_scores.items)
            /\ \A k \in DOMAIN scores : scores[k] = ROne

\* a user with seasonal and amenity preferences but no embedding has had
\* candidates scored whose seasons and amenities differ
C2_Witness ==
    /\ Scored
    /\ Len(last_scores.items) >= 2
    /\ ~HasUserEmb(last_scores.user_id)
    /\ ~HasCategoryEmb(last_scores.user_id, last_scores.category)
    /\ last_scores.user_id \in DOMAIN seasonal_preferences
    /\ last_scores.user_id \in DOMAIN amenity_preferences
    /\ \A k \in DOMAIN last_scores.result.scores :
          last_scores.result.scores[k] = ROne

-----------------------------------------------------------------------------
(* Properties of update_preferences                                         *)

Updated == last_update.op = "update_preferences"

\* the step is a call of update_preferences
IsUpdateStep == calls' # calls

\* the update_preferences calls so far of one user that carry a season label
SeasonCalls(user_id, season) ==
    SelectSeq(calls, LAMBDA c : /\ c.user_id = user_id
                                /\ Has(c.profile, "travel_season")
                                /\ c.profile["travel_season"] = season)

\* the sum over those calls of 0.7 when the label named the month of the call
\* and 0.3 otherwise, in tenths
RECURSIVE SumOfSeasonWeights(_)
SumOfSeasonWeights(cs) ==
    IF cs = <<>> THEN 0
    ELSE (IF Lower(Head(cs).profile["travel_season"]) = Lower(Head(cs).current_month)
          THEN 7 ELSE 3) + SumOfSeasonWeights(Tail(cs))

SeasonLabels == {"October", "october", "May"}

\* C7: a user's weight for a season label is the sum, over all the
\* update_preferences calls made with that label, of 0.7 when the label was
\* the month of the call and 0.3 otherwise; a label no call carried has no
\* weight.  Weights therefore accumulate and never decrease.
C7_SeasonalWeightsAccumulate ==
    \A user_id \in Users, season \in SeasonLabels :
        LET cs     == SeasonCalls(user_id, season)
            stored == Get(Get(seasonal_preferences, user_id, EmptyDict), season, 0)
        IN  /\ stored = SumOfSeasonWeights(cs)
            /\ (cs = <<>>) <=>
                  ~(/\ user_id \in DOMAIN seasonal_preferences
                    /\ season \in DOMAIN seasonal_preferences[user_id])

\* two calls with the season "October", both made in October: 0.7 + 0.7 = 1.4
C7_Witness ==
    /\ Len(SeasonCalls("u1", "October")) = 2
    /\ \A k \in 1..2 : SeasonCalls("u1", "October")[k].current_month = "October"
    /\ seasonal_preferences["u1"]["October"] = 14

\* a call yields no texts: no interaction has a query or an item name, and the
\* profile has no interests, travel_style or preferred_activities
YieldsNoTexts(call) ==
    /\ \A k \in DOMAIN call.interactions :
          /\ ~Has(call.interactions[k], "query")
          /\ ~Has(call.interactions[k], "item_name")
    /\ ~Has(call.profile, "interests")
    /\ ~Has(call.profile, "travel_style")
    /\ ~Has(call.profile, "preferred_activities")

\* C8: an update_preferences call that yields no texts leaves the general
\* embedding and the category vectors of every user as they were: none is
\* created, changed or cleared.
C8_NoTextsKeepsEmbeddings ==
    [][(IsUpdateStep /\ YieldsNoTexts(last_update'.call)) =>
          /\ user_embeddings' = user_embeddings
          /\ preference_vectors' = preference_vectors]_vars

\* a call without texts has been made for a user who has a general embedding
\* and a category vector from an earlier call, and the call did not raise
C8_Witness ==
    /\ Updated
    /\ YieldsNoTexts(last_update.call)
    /\ last_update.raised = None
    /\ Len(calls) = 2
    /\ last_update.call.user_id \in DOMAIN user_embeddings
    /\ last_update.call.user_id \in DOMAIN preference_vectors

\* how often an amenity occurs in a list
Occurrences(amenities, a) ==
    Cardinality({k \in DOMAIN amenities : amenities[k] = a})

\* the effect lines 46-60 have for one call: the season label gains its
\* weight, the travel group is counted once and the requirements are added,
\* every preferred amenity is counted once per occurrence; a map whose field is
\* absent from the profile is unchanged
ProfileFieldsApplied(call) ==
    LET u == call.user_id
        p == call.profile
    IN  /\ IF Has(p, "travel_season")
           THEN LET old == Get(seasonal_preferences, u, EmptyDict)
                    new == seasonal_preferences'[u]
                    s   == p["travel_season"]
                IN  /\ DOMAIN seasonal_preferences' = DOMAIN seasonal_preferences \cup {u}
                    /\ DOMAIN new = DOMAIN old \cup {s}
                    /\ new[s] = Get(old, s, 0)
                                + (IF Lower(s) = Lower(call.current_month) THEN 7 ELSE 3)
                    /\ \A t \in DOMAIN old \ {s} : new[t] = old[t]
           ELSE seasonal_preferences' = seasonal_preferences
        /\ IF Has(p, "travel_group")
           THEN LET old == Get(travel_group_preferences, u,
                               [types |-> EmptyDict, requirements |-> {}])
                    new == travel_group_preferences'[u]
                    g   == p["travel_group"]
                IN  /\ u \in DOMAIN travel_group_preferences'
                    /\ DOMAIN new.types = DOMAIN old.types \cup {g}
                    /\ new.types[g] = Get(old.types, g, 0) + 1
                    /\ \A t \in DOMAIN old.types \ {g} : new.types[t] = old.types[t]
                    /\ new.requirements =
                          old.requirements
                          \cup Range(Get(p, "special_requirements", <<>>))
           ELSE travel_group_preferences' = travel_group_preferences
        /\ IF Has(p, "preferred_amenities")
           THEN LET old == Get(amenity_preferences, u, EmptyDict)
                    new == amenity_preferences'[u]
                    am  == p["preferred_amenities"]
                IN  /\ u \in DOMAIN amenity_preferences'
                    /\ DOMAIN new = DOMAIN old \cup Range(am)
                    /\ \A a \in DOMAIN new :
                          new[a] = Get(old, a, 0) + Occurrences(am, a)
           ELSE amenity_preferences' = amenity_preferences

\* C9: the seasonal, travel-group and amenity updates of a call are applied
\* whenever the corresponding profile field is present, whether or not the
\* call yields texts and whatever the embedding step does.
C9_ProfileFieldsAlwaysApplied ==
    [][IsUpdateStep => ProfileFieldsApplied(last_update'.call)]_vars

\* a call without texts that names a travel group but no requirements has
\* been counted, and so has a call whose embedding step raised
C9_Witness ==
    /\ Len(calls) = 2
    /\ YieldsNoTexts(calls[1])
    /\ Has(calls[1].profile, "travel_group")
    /\ ~Has(calls[1].profile, "special_requirements")
    /\ ~YieldsNoTexts(calls[2])
    /\ Has(calls[2].profile, "travel_group")
    /\ Has(calls[2].profile, "preferred_amenities")
    /\ last_update.raised # None
    /\ calls[1].user_id = calls[2].user_id
    /\ LET mine == travel_group_preferences[calls[1].user_id].types
       IN  /\ calls[1].profile["travel_group"] \in DOMAIN mine
           /\ calls[2].profile["travel_group"] \in DOMAIN mine
    /\ calls[2].user_id \in DOMAIN amenity_preferences

\* the ratings line 99 works on, for one category of the latest call
RatingsOf(category) ==
    LET relevant == RelevantItems(last_update.call.interactions, category)
    IN  [k \in DOMAIN relevant |-> relevant[k]["rating"]]

ItemNamesOf(category) ==
    LET relevant == RelevantItems(last_update.call.interactions, category)
    IN  [k \in DOMAIN relevant |-> relevant[k]["item_name"]]

\* the categories of the latest call whose ratings differ
RatedCategories ==
    IF Updated
    THEN {c \in DOMAIN last_update.weights : MinOf(RatingsOf(c)) < MaxOf(RatingsOf(c))}
    ELSE {}

-----------------------------------------------------------------------------
(* Properties of the retrieval pipeline                                     *)

SearchedHotels == last_rag.op = "search_hotels"

\* the collection the latest search ran against
SearchedCollection ==
    IF SearchedHotels THEN hotels_collection ELSE itineraries_collection

\* a filter value that cannot be coerced to a number
NotCoercible(x) ==
    \/ x.t = "list"
    \/ x.t = "str" /\ x.s \in {"cheap", "good", "week", "lots"}

NotCoercibleKeys(filters) ==
    {k \in DOMAIN filters : NotCoercible(filters[k])}

WithoutKeys(filters, keys) == [k \in DOMAIN filters \ keys |-> filters[k]]

\* the value of a numeric filter, in tenths
NumberOf(x) == IF IsNumber(x) THEN Tenths(x) ELSE FloatLiteral(x.s)

IsNumeric(x) == IsNumber(x) \/ (x.t = "str" /\ FloatLiteral(x.s) >= 0)

\* a duration filter is a whole number of days: an int, a float (truncated)
\* or an integer literal
IsWholeNumber(x) == IsNumber(x) \/ (x.t = "str" /\ IntLiteral(x.s) >= 0)

DaysOf(x) ==
    CASE x.t = "int"   -> x.i
      [] x.t = "float" -> x.f \div 10
      [] OTHER         -> IntLiteral(x.s)

\* a stored record passes the upper bound a filter sets on a metadata field
PassesBound(metadata, filters, key, field) ==
    (key \in DOMAIN filters /\ IsNumeric(filters[key])) =>
        /\ field \in DOMAIN metadata
        /\ IsNumber(metadata[field])
        /\ Tenths(metadata[field]) <= NumberOf(filters[key])

\* a stored record passes every numeric filter of the latest search
PassesAll(metadata) ==
    LET f == last_rag.filters
    IN  IF SearchedHotels
        THEN /\ PassesBound(metadata, f, "max_price", "price")
             /\ ("min_rating" \in DOMAIN f /\ IsNumeric(f["min_rating"])) =>
                   /\ IsNumber(metadata["rating"])
                   /\ Tenths(metadata["rating"]) >= NumberOf(f["min_rating"])
        ELSE /\ ("duration" \in DOMAIN f /\ IsWholeNumber(f["duration"])) =>
                   /\ IsNumber(metadata["duration"])
                   /\ Tenths(metadata["duration"]) = 10 * DaysOf(f["duration"])
             /\ PassesBound(metadata, f, "max_budget", "budget_avg")

\* C3: a numeric filter whose value cannot be coerced to a number is dropped
\* without raising: the search returns what the same search returns with that
\* key absent, and the valid filters supplied with it still apply.
C3_UncoercibleFilterDropped ==
    (IsSearch(last_rag) /\ NotCoercibleKeys(last_rag.filters) # {}) =>
        LET kept == WithoutKeys(last_rag.filters, NotCoercibleKeys(last_rag.filters))
            mine == [raised |-> last_rag.raised, results |-> last_rag.results]
        IN  /\ last_rag.raised = None
            /\ IF SearchedHotels
               THEN mine \in SearchHotels(hotels_collection, last_rag.query, kept,
                                          last_rag.n_results)
               ELSE mine \in SearchItineraries(itineraries_collection, last_rag.query,
                                               kept, last_rag.n_results)
            /\ \A k \in DOMAIN last_rag.results :
                  PassesAll(last_rag.results[k].metadata)

\* hotels A (3000) and B (8000) are indexed; a search with max_price 5000 and
\* the rating filter "good" returned A alone
C3_Witness ==
    /\ SearchedHotels
    /\ last_rag.filters = [max_price |-> PInt(5000), min_rating |-> PStr("good")]
    /\ {"A", "B"} \subseteq DOMAIN hotels_collection
    /\ last_rag.n_results >= 2
    /\ Len(last_rag.results) = 1
    /\ last_rag.results[1].id = "A"

\* every filter value of the latest search is a number
AllFiltersNumeric ==
    \A k \in DOMAIN last_rag.filters : IsNumber(last_rag.filters[k])

\* the stored records that pass every filter of the latest search
Passing ==
    {id \in DOMAIN SearchedCollection : PassesAll(SearchedCollection[id].metadata)}

\* C4: valid filters supplied together combine with logical AND: the search
\* returns, every record returned satisfies all of them, and no record that
\* satisfies all of them is left out while there is room under the limit.
\* With hotels A (3000) and B (8000) indexed, max_price 5000 returns only A.
C4_FiltersCombineWithAnd ==
    (IsSearch(last_rag) /\ AllFiltersNumeric) =>
        /\ last_rag.raised = None
        /\ \A k \in DOMAIN last_rag.results : last_rag.results[k].id \in Passing
        /\ Len(last_rag.results) = Min2(last_rag.n_results, Cardinality(Passing))

\* C5: a search returns min(limit, number of records passing the filters)
\* results, nearest first, each with the id, document, metadata and distance
\* of a stored record; on an empty collection it returns the empty list.
C5_NearestFirstUpToLimit ==
    IsSearch(last_rag) =>
        LET results == last_rag.results
            query_embedding == Encode(last_rag.query)
        IN  /\ last_rag.raised = None
            /\ Len(results) = Min2(last_rag.n_results, Cardinality(Passing))
            /\ \A i, j \in DOMAIN results :
                  i < j => /\ results[i].distance <= results[j].distance
                           /\ results[i].id # results[j].id
            /\ \A k \in DOMAIN results :
                  /\ DOMAIN results[k] = {"id", "document", "metadata", "distance"}
                  /\ results[k].id \in Passing
                  /\ results[k].document = SearchedCollection[results[k].id].document
                  /\ results[k].metadata = SearchedCollection[results[k].id].metadata
                  /\ results[k].distance =
                        Distance(query_embedding,
                                 SearchedCollection[results[k].id].embedding)
            /\ \A id \in Passing :
                  (\A k \in DOMAIN results : results[k].id # id) =>
                      \A k \in DOMAIN results :
                          results[k].distance
                            <= Distance(query_embedding, SearchedCollection[id].embedding)
            /\ SearchedCollection = EmptyDict => results = <<>>

Indexed == last_rag.op \in {"_index_hotels", "_index_itineraries"}

\* the collection the latest indexing call wrote to
IndexedCollection ==
    IF last_rag.op = "_index_hotels" THEN hotels_collection
    ELSE itineraries_collection

\* the document text the latest indexing call built for a record
DocTextOf(record) ==
    IF last_rag.op = "_index_hotels" THEN HotelDocText(record)
    ELSE ItineraryDocText(record)

\* C6: after an indexing call that did not raise, the collection holds under
\* the id of every record of the batch the document built from that record:
\* a record indexed under an existing id overwrites the previous document.
C6_ReindexOverwrites ==
    (Indexed /\ last_rag.raised = None) =>
        \A k \in DOMAIN last_rag.batch :
            LET record == last_rag.batch[k]
            IN  /\ record["id"] \in DOMAIN IndexedCollection
                /\ IndexedCollection[record["id"]].document = DocTextOf(record)

\* what holds of C5 where the store accepts the where mapping
C5_HoldsWhenQueryAccepted ==
    (IsSearch(last_rag) /\ last_rag.raised # None) \/ C5_NearestFirstUpToLimit

\* what holds of C6: records under new ids are stored, records under ids the
\* collection already held are ignored
C6_ExistingIdsKept ==
    (Indexed /\ last_rag.raised = None) =>
        /\ \A id \in DOMAIN last_rag.before :
              IndexedCollection[id] = last_rag.before[id]
        /\ \A k \in DOMAIN last_rag.batch :
              LET record == last_rag.batch[k]
              IN  record["id"] \notin DOMAIN last_rag.before =>
                     IndexedCollection[record["id"]].document = DocTextOf(record)


-----------------------------------------------------------------------------
(* Further properties of update_preferences                                 *)

\* the categories in which the latest call rates items, every one of them
\* named, and all with the same rating (a single rated item included)
DegenerateCategories ==
    IF Updated
    THEN {c \in Range(Categories) :
             LET relevant == RelevantItems(last_update.call.interactions, c)
             IN  /\ relevant # <<>>
                 /\ \A k \in DOMAIN relevant : Has(relevant[k], "item_name")
                 /\ \A i, j \in DOMAIN relevant :
                       relevant[i]["rating"] = relevant[j]["rating"]}
    ELSE {}

\* every rated interaction of the latest call names its item
AllRatedItemsNamed ==
    \A k \in DOMAIN last_update.call.interactions :
        LET i == last_update.call.interactions[k]
        IN  (Has(i, "rating") /\ i["rating"] # 0) => Has(i, "item_name")

\* C11: when a category has exactly one rated item in the batch, or all its
\* rated items share one rating, the weights degenerate and update_preferences
\* still completes without raising.
C11_DegenerateRatingsComplete ==
    (Updated /\ last_update.texts # <<>> /\ AllRatedItemsNamed
       /\ DegenerateCategories # {}) =>
        last_update.raised = None


\* the texts of a call, in the order lines 28-44 collect them
TextsOfCall(call) == Texts(call.interactions, call.profile)

\* C12: the general embedding is overwritten, not merged: after a call with
\* at least one text, the user's general embedding is the mean of the
\* encodings of that call's texts alone, whatever earlier calls stored.
C12_GeneralEmbeddingOverwritten ==
    (Updated /\ ~YieldsNoTexts(last_update.call)) =>
        /\ HasUserEmb(last_update.call.user_id)
        /\ user_embeddings[last_update.call.user_id]
              = Mean(EncodeAll(TextsOfCall(last_update.call)))

\* two calls with texts for one user, with different means: the embedding is
\* the mean of the second call's texts
C12_Witness ==
    /\ Len(calls) = 2
    /\ calls[1].user_id = calls[2].user_id
    /\ ~YieldsNoTexts(calls[1])
    /\ ~YieldsNoTexts(calls[2])
    /\ Mean(EncodeAll(TextsOfCall(calls[1]))) # Mean(EncodeAll(TextsOfCall(calls[2])))
    /\ user_embeddings[calls[2].user_id] = Mean(EncodeAll(TextsOfCall(calls[2])))


-----------------------------------------------------------------------------
(* Further properties of get_personalized_scores                            *)

\* a candidate's metadata lacks best_seasons, amenities or type
LacksMetadata(item) ==
    {"best_seasons", "amenities", "type"} \ DOMAIN item["metadata"] # {}

\* the candidate with every field its metadata lacks set to the given value
\* for best_seasons, the empty list for amenities and '' for type
FilledIn(item, best_seasons) ==
    [item EXCEPT !["metadata"] =
        [k \in DOMAIN item["metadata"] \cup {"best_seasons", "amenities", "type"} |->
            IF k \in DOMAIN item["metadata"] THEN item["metadata"][k]
            ELSE CASE k = "best_seasons" -> best_seasons
                   [] k = "amenities"    -> <<>>
                   [] OTHER              -> ""]]

\* the scorer computed raw scores for the latest call
ScoredRaw == Scored /\ last_scores.result.raw # <<>>

\* the raw score the scorer gives a candidate now, in the latest call's setting
RawNow(item) ==
    RawScore(last_scores.user_id, item, last_scores.category,
             last_scores.current_month)

C14_MinMaxNormalization ==
    ScoredRaw =>
        LET raw    == last_scores.result.raw
            scores == last_scores.result.scores
        IN  /\ DOMAIN scores = DOMAIN raw
            /\ IF AllEqual(raw)
               THEN scores = raw
               ELSE \A i \in DOMAIN raw :
                       /\ (\A j \in DOMAIN raw : RLe(raw[i], raw[j])) =>
                             REq(scores[i], Rat(0, 1))
                       /\ (\A j \in DOMAIN raw : RLe(raw[j], raw[i])) =>
                             REq(scores[i], ROne)
                       /\ \A j \in DOMAIN raw :
                             /\ RLt(raw[i], raw[j]) => RLt(scores[i], scores[j])
                             /\ REq(raw[i], raw[j]) => REq(scores[i], scores[j])

\* three candidates with three different raw scores, none of them 0 or 1,
\* have been normalised
C14_Witness ==
    /\ ScoredRaw
    /\ Len(last_scores.items) = 3
    /\ LET raw == last_scores.result.raw
       IN  /\ \A i, j \in DOMAIN raw : i # j => ~REq(raw[i], raw[j])
           /\ \A i \in DOMAIN raw : RLt(Rat(0, 1), raw[i]) /\ RLt(raw[i], ROne)
    /\ last_scores.result.scores # last_scores.result.raw


\* two candidates alike in everything but one metadata field
DifferOnlyIn(a, b, field) ==
    /\ a["document"] = b["document"]
    /\ DOMAIN a["metadata"] = DOMAIN b["metadata"]
    /\ field \in DOMAIN a["metadata"]
    /\ \A k \in DOMAIN a["metadata"] \ {field} : a["metadata"][k] = b["metadata"][k]

TypeOf(item) == Lower(item["metadata"]["type"])

\* the user's dominant group type: none has been recorded more often
IsDominantGroup(user_id, group) ==
    /\ user_id \in DOMAIN travel_group_preferences
    /\ LET types == travel_group_preferences[user_id].types
       IN  /\ group \in DOMAIN types
           /\ \A h \in DOMAIN types : types[group] >= types[h]

\* candidate i of the latest call got the 1.5 multiplier: its raw score is
\* 1.5 times that of candidate j, which differs from it only in a type that
\* earns no multiplier
GotGroupMultiplier(i, j) ==
    REq(last_scores.result.raw[i],
        RMul(Rat(3, 2), last_scores.result.raw[j]))

\* C15: the 1.5 multiplier is applied exactly when the candidate's type is
\* family/resort and the user's dominant (most often recorded) group type is
\* "family", or the type is boutique/villa and the dominant group type is
\* "couple"; a user with another dominant group type gets no multiplier.
C15_MultiplierForDominantGroup ==
    ScoredRaw =>
        \A i, j \in DOMAIN last_scores.items :
            LET a == last_scores.items[i]
                b == last_scores.items[j]
            IN  (/\ DifferOnlyIn(a, b, "type")
                 /\ TypeOf(b) \notin {"family", "resort", "boutique", "villa"}
                 /\ RLt(Rat(0, 1), last_scores.result.raw[j])) =>
                    /\ TypeOf(a) \in {"family", "resort"} =>
                          (GotGroupMultiplier(i, j)
                             <=> IsDominantGroup(last_scores.user_id, "family"))
                    /\ TypeOf(a) \in {"boutique", "villa"} =>
                          (GotGroupMultiplier(i, j)
                             <=> IsDominantGroup(last_scores.user_id, "couple"))

\* what the scorer does: the multiplier goes to a family/resort candidate as
\* soon as "family" was recorded once, and to a boutique/villa candidate as
\* soon as "couple" was
C15_MultiplierForAnyRecordedGroup ==
    ScoredRaw =>
        \A i, j \in DOMAIN last_scores.items :
            LET a == last_scores.items[i]
                b == last_scores.items[j]
                types == IF last_scores.user_id \in DOMAIN travel_group_preferences
                         THEN DOMAIN travel_group_preferences[last_scores.user_id].types
                         ELSE {}
            IN  (/\ DifferOnlyIn(a, b, "type")
                 /\ TypeOf(b) \notin {"family", "resort", "boutique", "villa"}
                 /\ RLt(Rat(0, 1), last_scores.result.raw[j])) =>
                    /\ TypeOf(a) \in {"family", "resort"} =>
                          (GotGroupMultiplier(i, j) <=> "family" \in types)
                    /\ TypeOf(a) \in {"boutique", "villa"} =>
                          (GotGroupMultiplier(i, j) <=> "couple" \in types)


\* the seasonal weights recorded for the user of the latest scoring call
SeasonalWeightsOfScored ==
    Get(seasonal_preferences, last_scores.user_id, EmptyDict)

\* C16: for every season label in a candidate's best_seasons for which the
\* user has a weight, recorded by update_preferences under that same label,
\* season_score is multiplied by (1 + weight): a candidate with the one label
\* L has (1 + weight of L) times the raw score of the same candidate with no
\* season label.
C16_SeasonFactorForRecordedLabel ==
    ScoredRaw =>
        \A i, j \in DOMAIN last_scores.items :
            LET a == last_scores.items[i]
                b == last_scores.items[j]
            IN  (/\ DifferOnlyIn(a, b, "best_seasons")
                 /\ b["metadata"]["best_seasons"] = <<>>
                 /\ Len(a["metadata"]["best_seasons"]) = 1
                 /\ a["metadata"]["best_seasons"][1] \in DOMAIN SeasonalWeightsOfScored) =>
                    REq(last_scores.result.raw[i],
                        RMul(Rat(10 + SeasonalWeightsOfScored[a["metadata"]["best_seasons"][1]],
                                 10),
                             last_scores.result.raw[j]))

\* what the scorer does: it looks the candidate's label up in lower case, so
\* the multiplier is that of the weight recorded under the lower-case label
\* and a weight recorded under a capitalised label is never used
C16_SeasonFactorForLowerCaseLabel ==
    ScoredRaw =>
        \A i, j \in DOMAIN last_scores.items :
            LET a == last_scores.items[i]
                b == last_scores.items[j]
            IN  (/\ DifferOnlyIn(a, b, "best_seasons")
                 /\ b["metadata"]["best_seasons"] = <<>>
                 /\ Len(a["metadata"]["best_seasons"]) = 1) =>
                    LET label == Lower(a["metadata"]["best_seasons"][1])
                    IN  REq(last_scores.result.raw[i],
                            RMul(Rat(10 + Get(SeasonalWeightsOfScored, label, 0), 10),
                                 last_scores.result.raw[j]))


\* the requirements stored for a user
StoredRequirements(user_id) ==
    IF user_id \in DOMAIN travel_group_preferences
    THEN travel_group_preferences[user_id].requirements
    ELSE {}

RECURSIVE UnionOfRequirements(_)
\* the union of the special_requirements the given calls supplied
UnionOfRequirements(cs) ==
    IF cs = <<>> THEN {}
    ELSE Range(Get(Head(cs).profile, "special_requirements", <<>>))
         \cup UnionOfRequirements(Tail(cs))

CallsOf(user_id) == SelectSeq(calls, LAMBDA c : c.user_id = user_id)

\* C17: after any sequence of update_preferences calls for a user, the stored
\* requirements set is the union of all the special_requirements supplied in
\* those calls; it never loses an element.
C17_RequirementsUnionOfAllCalls ==
    \A user_id \in Users :
        StoredRequirements(user_id) = UnionOfRequirements(CallsOf(user_id))

\* what the code keeps: the union over the calls whose profile also names a
\* travel group
C17_RequirementsUnionOfGroupCalls ==
    \A user_id \in Users :
        StoredRequirements(user_id) =
            UnionOfRequirements(SelectSeq(CallsOf(user_id),
                                          LAMBDA c : Has(c.profile, "travel_group")))


-----------------------------------------------------------------------------
(* Properties of indexing                                                   *)

IsScalar(x) == x.t \in {"int", "float", "str"}

AllCollections == {hotels_collection, attractions_collection, itineraries_collection}

IsIndexing == last_rag.op \in {"_index_hotels", "_index_attractions", "_index_itineraries"}

\* the collection the latest indexing call of any kind wrote to
TargetCollection ==
    CASE last_rag.op = "_index_hotels"      -> hotels_collection
      [] last_rag.op = "_index_attractions" -> attractions_collection
      [] OTHER                              -> itineraries_collection

\* a raw record in which a field the indexer reads is missing
LacksFields(record) ==
    CASE last_rag.op = "_index_hotels" ->
             {"id", "base_price_inr", "avg_rating", "type"} \ DOMAIN record # {}
      [] last_rag.op = "_index_attractions" ->
             {"id", "duration_hours", "type"} \ DOMAIN record # {}
      [] OTHER ->
             {"id", "duration_days", "budget_avg", "theme"} \ DOMAIN record # {}

\* C19: indexing never aborts a batch because of a malformed record: a batch
\* in which some records lack fields is indexed without raising, every record
\* that has an id being stored under it.
C19_MalformedRecordNeverAbortsBatch ==
    (IsIndexing /\ \E k \in DOMAIN last_rag.batch : LacksFields(last_rag.batch[k])) =>
        /\ last_rag.raised = None
        /\ \A k \in DOMAIN last_rag.batch :
               Has(last_rag.batch[k], "id") =>
                   last_rag.batch[k]["id"] \in DOMAIN TargetCollection

\* what holds: a batch is aborted only by the store's add(), and when it is
\* no record of the batch is stored, the well-formed ones included
C19_AbortLosesWholeBatch ==
    (IsIndexing /\ last_rag.raised # None) =>
        /\ TargetCollection = last_rag.before
        /\ last_rag.raised \in {"ValueError", "DuplicateIDError"}


-----------------------------------------------------------------------------
(* Properties of encoder failure                                            *)

\* the step is a search call
IsQueryStep == last_rag' # last_rag /\ IsQuery(last_rag')

\* the step is a get_personalized_scores call that reaches encode
\* (user_preferences.py:164-169: an empty candidate list returns before it)
IsEncodingScoreStep ==
    /\ last_scores' # last_scores
    /\ last_scores'.op = "get_personalized_scores"
    /\ last_scores'.items # <<>>

\* the step is an update_preferences call that reaches encode
\* (user_preferences.py:62-64: a call without texts does not)
IsEncodingUpdateStep ==
    /\ IsUpdateStep
    /\ last_update'.texts # <<>>

\* C20: when encode raises during search_hotels, search_attractions,
\* search_itineraries, get_personalized_scores or update_preferences, the
\* call raises the encoder's error instead of returning a result.
C20_EncoderFailurePropagates ==
    [][ ~encoder_up =>
          /\ IsQueryStep =>
                last_rag'.raised = "EncoderError" /\ last_rag'.results = <<>>
          /\ IsEncodingScoreStep =>
                /\ last_scores'.raised = "EncoderError"
                /\ "result" \notin DOMAIN last_scores'
          /\ IsEncodingUpdateStep =>
                /\ last_update'.raised = "EncoderError"
                /\ user_embeddings' = user_embeddings
                /\ preference_vectors' = preference_vectors ]_vars

\* with the encoder down, an update, a scoring call and a search have each
\* raised its error
C20_Witness ==
    /\ ~encoder_up
    /\ Updated /\ last_update.texts # <<>> /\ last_update.raised = "EncoderError"
    /\ last_scores # NoCall /\ last_scores.raised = "EncoderError"
    /\ IsQuery(last_rag) /\ last_rag.raised = "EncoderError"


-----------------------------------------------------------------------------
(* Properties of overlapping updates                                        *)

RECURSIVE SumOfIncrements(_, _, _)
\* the sum of the increments the given updates make to one key of one map
SumOfIncrements(ops, map, key) ==
    IF ops = <<>> THEN 0
    ELSE (IF Head(ops).map = map /\ Head(ops).key = key THEN Head(ops).by ELSE 0)
         + SumOfIncrements(Tail(ops), map, key)

RECURSIVE OpsOfCalls(_)
OpsOfCalls(cs) ==
    IF cs = <<>> THEN <<>>
    ELSE UpdateOps(Head(cs).profile, Head(cs).current_month) \o OpsOfCalls(Tail(cs))

RECURSIVE OpsOfThreads(_)
\* the updates the threads 1..n have made
OpsOfThreads(n) ==
    IF n = 0 THEN <<>>
    ELSE OpsOfThreads(n - 1) \o (IF threads[n].pc = "idle" THEN <<>> ELSE threads[n].done)

AllThreadsDone == \A t \in Threads : threads[t].pc = "done"

\* every call has returned and the stored value is less than the sum of the
\* increments the calls made
IncrementLost(map, key) ==
    /\ AllThreadsDone
    /\ Get(CountsOf(map, "u1"), key, 0)
          < SumOfIncrements(OpsOfCalls(calls) \o OpsOfThreads(MaxThreads), map, key)

\* the weights or counts of a map after the step
CountsAfter(map, user_id) ==
    CASE map = "season"  -> Get(seasonal_preferences', user_id, EmptyDict)
      [] map = "group"   -> Get(travel_group_preferences', user_id, NoGroups).types
      [] map = "amenity" -> Get(amenity_preferences', user_id, EmptyDict)

\* C21: updates of one user's maps take no lock: a thread's `+=` writes the
\* value it read plus its increment and its `=` writes its increment, whatever
\* another thread has stored in between, so that two overlapping calls can
\* leave a weight or count below the sum of their increments.
C21_UpdatesUnprotected ==
    [][ \A t \in Threads :
          LET th == threads[t]
          IN  /\ (th.pc = "write" /\ threads'[t] # th) =>
                    CountsAfter(Head(th.ops).map, th.call.user_id)[Head(th.ops).key]
                       = th.read + Head(th.ops).by
              /\ (th.pc = "set" /\ threads'[t] # th) =>
                    CountsAfter(Head(th.ops).map, th.call.user_id)[Head(th.ops).key]
                       = Head(th.ops).by ]_vars

\* two calls with the season 'May' and the amenity 'Pool' have returned and
\* both the seasonal weight and the amenity count miss an increment
C21_Witness ==
    /\ IncrementLost("season", "May")
    /\ IncrementLost("amenity", "Pool")
    /\ \A t \in Threads : Len(threads[t].done) >= 2

\* the same state for a group-type count (reachable as well)
C21_GroupCountLost == IncrementLost("group", "family")

\* where the calls do not overlap no increment is lost
C21_SequentialKeepsIncrements ==
    (\A t \in Threads : threads[t].pc \in {"idle", "done"}) /\
    (\A t \in Threads : threads[t].pc = "idle") =>
        \A map \in {"season", "group", "amenity"}, key \in {"May", "family", "Pool"} :
            Get(CountsOf(map, "u1"), key, 0)
               = SumOfIncrements(OpsOfCalls(calls), map, key)


-----------------------------------------------------------------------------
(* Properties of the booking workflow                                       *)

\* the bookings stored in the profile of a user
BookingsOf(user_id) ==
    IF user_id \in DOMAIN profiles THEN profiles[user_id].bookings ELSE <<>>

\* the ids of the bookings stored in some profile: those confirmed so far
ConfirmedIds ==
    UNION { {BookingsOf(u)[k]["booking_id"] : k \in DOMAIN BookingsOf(u)} :
              u \in DOMAIN profiles }

\* C22: a booking whose confirmation succeeded is no longer pending and is in
\* its owner's profile once, with status 'confirmed'; from then on
\* get_booking_details finds nothing under its id and confirm_booking and
\* cancel_booking answer 'Booking not found'; a cancelled booking is never
\* added to a profile.
C22_BookingLifecycle ==
    /\ \A u \in DOMAIN profiles :
          \A k \in DOMAIN BookingsOf(u) :
              LET b == BookingsOf(u)[k]
              IN  /\ b["user_id"] = u
                  /\ b["status"] = "confirmed"
                  /\ b["booking_id"] \notin DOMAIN pending_bookings
                  /\ \A j \in DOMAIN BookingsOf(u) :
                        BookingsOf(u)[j]["booking_id"] = b["booking_id"] => j = k
    /\ (last_booking.op \in {"confirm_booking", "cancel_booking"}
          /\ last_booking.raised = None /\ last_booking.success) =>
              /\ last_booking.booking_id \notin DOMAIN pending_bookings
              /\ last_booking.op = "cancel_booking" =>
                    last_booking.booking_id \notin ConfirmedIds
              /\ last_booking.op = "confirm_booking" =>
                    last_booking.booking_id \in ConfirmedIds
    /\ (last_booking.op = "get_booking_details"
          /\ last_booking.booking_id \in ConfirmedIds) => ~last_booking.found

\* what holds of C22: the lifecycle is kept as long as no booking id has been
\* handed out twice
C22_LifecycleWhileIdsDistinct == HasDuplicates(issued) \/ C22_BookingLifecycle

\* C26: any two initiate_booking calls produce different ids: an initiation
\* never overwrites a pending booking and the number of pending bookings
\* grows by exactly one.
C26_InitiationsGetDistinctIds ==
    /\ ~HasDuplicates(issued)
    /\ last_booking.op = "initiate_booking" =>
          /\ last_booking.booking_id \notin DOMAIN last_booking.pending_before
          /\ Cardinality(DOMAIN pending_bookings)
                = Cardinality(DOMAIN last_booking.pending_before) + 1

\* what holds of C26: initiations in different seconds, or for different
\* users or item types, get different ids
C26_DistinctAcrossSeconds ==
    \A id \in DOMAIN pending_bookings :
        id = BookingId(pending_bookings[id]["user_id"], pending_bookings[id]["item_type"],
                       pending_bookings[id]["created_at"])

\* C27: every booking held in pending_bookings has status 'pending', also
\* after a confirm_booking call that failed part-way.
C27_PendingHaveStatusPending ==
    \A id \in DOMAIN pending_bookings : pending_bookings[id]["status"] = "pending"

\* what holds of C27: a booking that is held with another status is one whose
\* confirmation set the status and the time (lines 54-55) and then raised
C27_OtherStatusAfterFailedConfirm ==
    \A id \in DOMAIN pending_bookings :
        \/ pending_bookings[id]["status"] = "pending"
        \/ /\ pending_bookings[id]["status"] = "confirmed"
           /\ "confirmed_at" \in DOMAIN pending_bookings[id]

-----------------------------------------------------------------------------
(* Properties of the conversation log                                       *)

Queried == last_query.op = "process_query"

TookErrorPath == last_query.response.intent = "error"

StoredConversation(user_id) == Get(conversations, user_id, <<>>)

\* the two entries of the latest call
EntriesOfCall ==
    <<Entry("user", last_query.user_message), Entry("assistant", last_query.reply)>>

\* C23: after a process_query call that does not take the error path the
\* stored conversation holds at most 20 entries, the most recent ones in
\* order, ending with the call's user message and its assistant reply; on
\* the error path the stored conversation is unchanged.
C23_ConversationBoundedAndLatest ==
    Queried =>
        LET now == StoredConversation(last_query.user_id)
        IN  IF TookErrorPath
            THEN now = last_query.before
            ELSE /\ Len(now) <= HistoryLimit
                 /\ now = LastN(last_query.before \o EntriesOfCall, HistoryLimit)
                 /\ SubSeq(now, Len(now) - 1, Len(now)) = EntriesOfCall

\* what holds of C23: on every path the conversation holds at most 20
\* entries, and a call that answers leaves the latest entries, ending with
\* its own two
C23_BoundedOnEveryPath ==
    /\ \A u \in DOMAIN conversations : Len(conversations[u]) <= HistoryLimit
    /\ (Queried /\ ~TookErrorPath) =>
           StoredConversation(last_query.user_id)
              = LastN(last_query.before \o EntriesOfCall, HistoryLimit)

-----------------------------------------------------------------------------
(* C24 *)

\* generate_safe is between its first line and its return
GenerateSafeRunning == llm.pc \in {"loop", "break"}

GenerateSafeReturned == llm.pc = "done"

\* the generate calls of the running or returned generate_safe that gave a
\* non-empty sanitized text
NonEmptyAnswers ==
    { k \in DOMAIN llm.generated :
          ~llm.generated[k].raised /\ llm.generated[k].text # <<>> }

\* what generate_safe has done so far is what the claim allows
GenerateSafeAsClaimed ==
    llm.pc # "idle" =>
      /\ Len(llm.generated) <= llm.retries + 1
      /\ GenerateSafeReturned =>
           /\ llm.result # <<>>
           /\ PromptText(llm.given) = <<>> =>
                llm.result = Greeting /\ llm.generated = <<>>
           /\ PromptText(llm.given) # <<>> =>
                IF NonEmptyAnswers # {}
                THEN /\ NonEmptyAnswers = {Len(llm.generated)}
                     /\ llm.result = llm.generated[Len(llm.generated)].text
                ELSE llm.result = FallbackResponse(llm.prompt)

\* C24: generate_safe always terminates and returns a non-empty string: for
\* any prompt and retries >= 0 it calls generate at most retries + 1 times,
\* returns the first non-empty sanitized model text and otherwise the canned
\* fallback response; an empty or whitespace-only prompt returns the canned
\* greeting without a call of generate.
C24_GenerateSafeTerminatesNonEmpty ==
    /\ []GenerateSafeAsClaimed
    /\ GenerateSafeRunning ~> GenerateSafeReturned

\* generate_safe returned the model's text from its last allowed call, cut
\* by the length guard, after empty answers
C24_Witness ==
    /\ GenerateSafeReturned
    /\ llm.retries = MaxRetries
    /\ Len(llm.generated) = llm.retries + 1
    /\ NonEmptyAnswers # {}
    /\ TextLen(llm.result) > 1000

\* generate_safe returned the fallback after retries + 1 calls of generate
C24_FallbackAfterAllRetries ==
    /\ GenerateSafeReturned
    /\ Len(llm.generated) = llm.retries + 1
    /\ NonEmptyAnswers = {}
    /\ llm.result = FallbackResponse(llm.prompt)

-----------------------------------------------------------------------------
(* C25 *)

LastVoice == voice_log.last

RECURSIVE ArrivalOrder(_)
\* the bytes of a sequence of chunks, the earliest chunk first
ArrivalOrder(chunks) ==
    IF chunks = <<>> THEN <<>>
    ELSE ArrivalOrder(SubSeq(chunks, 1, Len(chunks) - 1)) \o chunks[Len(chunks)]

\* C25: StreamingVoiceService buffers audio only while recording: a chunk is
\* appended to the buffer iff is_recording is true at that moment,
\* start_recording empties the buffer, after stop_recording returns
\* is_recording is false and the buffer is empty, the return value being ''
\* when no chunk was buffered, and the transcription is built exactly from
\* the chunks received since the last start_recording, in arrival order.
C25_BuffersOnlyWhileRecording ==
    /\ LastVoice.op = "process_audio_chunk" =>
         voice.audio_buffer =
            IF LastVoice.was_recording
            THEN Append(LastVoice.buffer_before, LastVoice.audio_chunk)
            ELSE LastVoice.buffer_before
    /\ LastVoice.op = "start_recording" => voice.audio_buffer = <<>>
    /\ (LastVoice.op = "stop_recording" /\ LastVoice.returned) =>
         /\ ~voice.is_recording
         /\ voice.audio_buffer = <<>>
         /\ LastVoice.buffer_before = <<>> => LastVoice.value = <<>>
         /\ LastVoice.transcribed =>
              /\ LastVoice.audio_data = AudioData(ArrivalOrder(voice_log.received))
              /\ LastVoice.value \in
                    { TranscribeAudio(LastVoice.audio_data, ok) : ok \in BOOLEAN }

\* stop_recording returned what Whisper heard in three chunks
C25_Witness ==
    /\ LastVoice.op = "stop_recording"
    /\ LastVoice.returned
    /\ Len(LastVoice.buffer_before) = 3
    /\ LastVoice.value # <<>>
    /\ Len(LastVoice.audio_data) >= 3

\* stop_recording raised on an odd number of bytes and left the chunks in the
\* buffer
C25_StopRaisedBufferKept ==
    /\ LastVoice.op = "stop_recording"
    /\ ~LastVoice.returned
    /\ voice.audio_buffer # <<>>
    /\ ~voice.is_recording

-----------------------------------------------------------------------------
(* C28 *)

\* C28: after any sequence of connect and disconnect calls, every session id
\* listed in a user's user_sessions set has a websocket in
\* active_connections, and no user is mapped to an empty session set.
C28_SessionsHaveConnections ==
    \A user_id \in DOMAIN user_sessions :
        /\ user_sessions[user_id] # {}
        /\ \A session_id \in user_sessions[user_id] :
               Has(active_connections, session_id)

\* Whatever the calls, no user is mapped to an empty session set
C28_NoEmptySessionSet ==
    \A user_id \in DOMAIN user_sessions : user_sessions[user_id] # {}

\* a session id is listed for a user and has no websocket
C28_ListedWithoutConnection ==
    \E user_id \in DOMAIN user_sessions :
        \E session_id \in user_sessions[user_id] :
            ~Has(active_connections, session_id)

-----------------------------------------------------------------------------
(* C29 *)

\* what a map stores for a user: its entry, or nothing
UserEntry(map, user_id) == IF Has(map, user_id) THEN <<map[user_id]>> ELSE <<>>

\* the step is an update_preferences call that raised
IsFailedUpdateStep == IsUpdateStep /\ last_update'.raised # None

\* the step leaves all that is stored for the user as it was
UserStateKept(user_id) ==
    /\ UserEntry(user_embeddings', user_id) = UserEntry(user_embeddings, user_id)
    /\ UserEntry(preference_vectors', user_id) = UserEntry(preference_vectors, user_id)
    /\ UserEntry(seasonal_preferences', user_id)
          = UserEntry(seasonal_preferences, user_id)
    /\ UserEntry(travel_group_preferences', user_id)
          = UserEntry(travel_group_preferences, user_id)
    /\ UserEntry(amenity_preferences', user_id)
          = UserEntry(amenity_preferences, user_id)

\* C29: if update_preferences raises for a user (encoder failure, zero-sum
\* weights, or a rated interaction without item_name), none of that user's
\* stored preference state (general embedding, category vectors, seasonal
\* weights, group types and requirements, amenity counts) has been changed
\* by the failed call.
C29_FailedUpdateChangesNothing ==
    [][ IsFailedUpdateStep => UserStateKept(last_update'.call.user_id) ]_vars

\* A failed call changes nothing that is stored for the other users
C29_FailedUpdateKeepsOtherUsers ==
    [][ IsFailedUpdateStep =>
          \A user_id \in (DOMAIN user_embeddings \cup DOMAIN preference_vectors
                          \cup DOMAIN seasonal_preferences
                          \cup DOMAIN travel_group_preferences
                          \cup DOMAIN amenity_preferences)
                         \ {last_update'.call.user_id} :
              UserStateKept(user_id) ]_vars

\* A call that fails with the encoder down leaves the general embeddings and
\* the category vectors as they were
C29_EncoderFailureKeepsEmbeddings ==
    [][ (IsFailedUpdateStep /\ ~encoder_up) =>
          /\ user_embeddings' = user_embeddings
          /\ preference_vectors' = preference_vectors ]_vars

-----------------------------------------------------------------------------
(* C30 *)

Planned == last_itinerary.op = "generate_itinerary"

EstimatedCost == last_itinerary.itinerary.estimated_cost

\* C30: for any duration_days >= 1 and budget > 0 the itinerary returned by
\* generate_itinerary has estimated_cost.total (accommodation + meals + 10%
\* transport) no greater than the budget, on the template path and on the
\* from-scratch path, the hotels returned by search_hotels being within the
\* max_price filter of half the daily budget.
C30_CostWithinBudget ==
    Planned =>
      /\ QLe(EstimatedCost.total, Q(last_itinerary.budget, 1))
      /\ EstimatedCost.total =
            QMul(QAdd(EstimatedCost.breakdown.accommodation,
                      EstimatedCost.breakdown.meals), Q(11, 10))

\* an itinerary made from scratch with a hotel at the price limit every
\* night costs 99% of the budget
C30_Witness ==
    /\ Planned
    /\ ~last_itinerary.from_template
    /\ last_itinerary.duration_days = MaxDays
    /\ \A k \in DOMAIN last_itinerary.itinerary.daily_plan :
           /\ Stays(last_itinerary.itinerary.daily_plan[k])
           /\ last_itinerary.itinerary.daily_plan[k].accommodation.price > 0
    /\ EstimatedCost.total = QMul(Q(last_itinerary.budget, 1), Q(99, 100))

\* an itinerary made from a template costs 44% of the budget whatever the
\* template's duration, and nothing when that is 0
C30_TemplateCost ==
    (Planned /\ last_itinerary.from_template) =>
        EstimatedCost.total =
            IF last_itinerary.itinerary.duration_days = 0 THEN Q(0, 1)
            ELSE QMul(Q(last_itinerary.budget, 1), Q(44, 100))

=============================================================================
